---- MODULE Spec2Model ----
(***************************************************************************)
(* State-machine model of the TDMS viewer's signal cache (DataManager),    *)
(* its plot load pipeline (PlotWorker + GraphWidget) and its table load    *)
(* fencing (TDMSViewer.update_table / on_incremental_chunk_ready).         *)
(*                                                                         *)
(* numpy arrays are modelled by descriptors [src, kind, len]: the load    *)
(* that owns the array (0 for an array handed to the DataManager           *)
(* directly), what it holds ("value", "time", or the synthesized "index" *)
(* axis) and its length.  Slices are index ranges over such an array.      *)
(***************************************************************************)
EXTENDS Integers, Sequences, FiniteSets, TLC

(* ---------------------------------------------------------------- bounds *)
\* longest channel (in samples) offered to a plot load
MaxLen == 6
\* number of PlotWorkers that add_plot may start in one behaviour
MaxWorkers == 2
MaxLoads == 3
\* longest channel offered to add_plot when several loads run side by side
MaxPlotLen == 4
\* the x grid of the signals handed to the SignalProcessor has MaxX + 1 points
MaxX == 5
\* largest target_points of a SignalProcessor call
MaxTarget == 4
\* number of table rebuilds in one behaviour
MaxRebuilds == 2
\* most rows a table rebuild has to load
MaxRows == 3
\* longest array handed directly to the DataManager
MaxCacheLen == 1

(* ------------------------------------------------- program constants     *)
\* DataManager.__init__(max_cache_size=10), scaled down
max_cache_size == 2
\* PlotWorker.__init__(initial_points=1000000), scaled down
INITIAL_POINTS == 3
\* PlotWorker.__init__(chunk_size=100000), scaled down
CHUNK_SIZE == 2
\* TableWorker.__init__(chunk_size=1000), scaled down
TABLE_CHUNK == 2
\* helpers.calculate_optimal_decimation(target=1000000), scaled like INITIAL_POINTS
DECIMATION_TARGET == 3

None == "None"
Keys == {"g/a", "g/b", "g/c"}

Last(q) == q[Len(q)]
Min(a, b) == IF a <= b THEN a ELSE b
Max(a, b) == IF a >= b THEN a ELSE b

Arr(src, kind, len) == [src |-> src, kind |-> kind, len |-> len]
\* an array variable that has not been assigned yet
NoArray == Arr(0, "none", 0)
\* an optional value: Nothing is Python's None
Some(v) == [some |-> TRUE, v |-> v]
Nothing == [some |-> FALSE, v |-> 0]

\* what get_y_at_x returns: None, or a float, kept as the exact fraction num / den
YNone == [none |-> TRUE, num |-> 0, den |-> 1]
YAt(num, den) == [none |-> FALSE, num |-> num, den |-> den]

VARIABLES
    signal_cache,   \* DataManager.signal_cache: the OrderedDict as a sequence of entries, oldest first
    touched,        \* history: keys of signal_cache ordered by their last touch, least recent first
    lastEvict,      \* history: what the last cache_signal call removed
    workers,        \* the PlotWorkers started so far, in start order
    emitted,        \* per worker, every event it has emitted so far, in order
    handled,        \* per worker, how many of its events the GUI thread has dispatched to their slots
    current_plots,  \* GraphWidget.current_plots: the dict as a sequence of [key, data], in insertion order
    staleApplied,   \* history: workers one of whose events was handled after a later load of the same key had completed
    table_worker_id,       \* TDMSViewer.table_worker_id
    current_table_worker,  \* TDMSViewer.current_table_worker (index into tworkers, 0 for None)
    tworkers,       \* the TableWorkers started so far, in start order
    temitted,       \* per TableWorker, every event it has emitted so far, in order
    thandled,       \* per TableWorker, how many of its events the GUI thread has dispatched
    table,          \* the table widget's filled rows, as pairs <<row, id of the worker that wrote it>>
    is_fully_loaded,  \* TDMSViewer.table_cache.is_fully_loaded
    staleDropped,   \* history: a chunk_ready of a superseded worker has been dropped
    plot_keys,      \* TDMSViewer.table_cache.plot_keys
    column_count,   \* table_widget.columnCount()
    row_count,      \* table_widget.rowCount()
    tab_index,      \* the tab shown: 0 the graph, 1 the table
    built_keys,     \* history: the keys plotted when update_table ran last
    now,            \* the time in ms since the program started (it starts at midnight)
    last_scroll_update,  \* TDMSViewer.last_scroll_update
    last_scroll_time,    \* TableWidget.last_scroll_time, Nothing while the attribute is not set
    scroll_loads,   \* history: the times at which a scroll event called load_cached_data_chunk
    last_scroll,    \* history: the time of the last scroll event
    cursor_enabled,    \* GraphWidget.cursor_enabled
    cursor_created,    \* GraphWidget.cursor_vline is not None: the four cursor lines exist
    cursor_shown,      \* the cursor lines are among plot_widget.items()
    cursor_active,     \* GraphWidget.cursor_active
    cursor_positions,  \* GraphWidget.cursor_positions
    cursor_y_values,   \* GraphWidget.cursor_y_values
    auto_range_enabled,  \* GraphWidget.auto_range_enabled
    last_view_range,   \* GraphWidget.last_view_range
    view_range,        \* the x range the plot widget's view box shows
    current_snap_plot,  \* TDMSViewer.current_snap_plot: the key of the plot chosen as snap target
    snap_raised,       \* history: the last on_snap_changed ended in an AttributeError
    is_loading,     \* TableWidget.is_loading
    progress_value, \* TableWidget.progress_bar.value()
    progress_shown, \* TableWidget.progress_bar is visible
    old_workers,    \* history: the workers started before the file now open was loaded
    removed,        \* history: the workers started before their key was last removed or cleared
    call,           \* the SignalProcessor call made last, with its arguments
    result          \* what that call returned

cacheVars == <<signal_cache, touched, lastEvict>>
plotVars == <<workers, emitted, handled, current_plots, staleApplied>>
tabVars == <<plot_keys, column_count, row_count, tab_index, built_keys>>
widgetVars == <<is_loading, progress_value, progress_shown>>
scrollVars == <<now, last_scroll_update, last_scroll_time, scroll_loads, last_scroll>>
tableVars == <<table_worker_id, current_table_worker, tworkers, temitted, thandled, table,
              is_fully_loaded, staleDropped, tabVars, scrollVars, widgetVars>>
cursorVars == <<cursor_enabled, cursor_created, cursor_shown, cursor_active, cursor_positions,
               cursor_y_values>>
snapVars == <<current_snap_plot, snap_raised>>
viewVars == <<cursorVars, snapVars, auto_range_enabled, last_view_range, view_range>>
procVars == <<call, result>>
fileVars == <<old_workers, removed>>
vars == <<cacheVars, plotVars, tableVars, viewVars, procVars, fileVars>>

(* ------------------------------------------------------------ DataManager *)
\* SignalCache(): a fresh entry has neither decimated data nor statistics (decimated_data is
\* the tuple of cached arrays, the empty tuple for None)
SignalCache(key, x, y) ==
    [key |-> key, x_data |-> x, y_data |-> y, decimated_data |-> << >>, statistics |-> None]

CacheKeys(c) == {c[i].key : i \in 1..Len(c)}
IndexOf(c, key) == CHOOSE i \in 1..Len(c) : c[i].key = key

\* mutant: nothing is dropped
PopOldest_Keep(c) == c

\* OrderedDict.popitem(last=False): drop the first (oldest inserted) entry
PopOldest(c) == Tail(c)

\* mutant: the entry object of an existing key is reused, its derived data kept
SetItem_KeepDerived(c, e) ==
    IF e.key \in CacheKeys(c)
    THEN [c EXCEPT ![IndexOf(c, e.key)].x_data = e.x_data,
                   ![IndexOf(c, e.key)].y_data = e.y_data]
    ELSE Append(c, e)

\* OrderedDict.__setitem__: an existing key keeps its position, a new key goes last
SetItem(c, e) ==
    IF e.key \in CacheKeys(c)
    THEN [c EXCEPT ![IndexOf(c, e.key)] = e]
    ELSE Append(c, e)

\* mutant: the capacity test is off by one
CacheIsFull_OffByOne(c) == Len(c) > max_cache_size

\* cache_signal's capacity test: len(self.signal_cache) >= self.max_cache_size
CacheIsFull(c) == Len(c) >= max_cache_size

\* DataManager.cache_signal
CacheSignal(c, key, x, y) ==
    LET c1 == IF CacheIsFull(c) THEN PopOldest(c) ELSE c
    IN  SetItem(c1, SignalCache(key, x, y))

\* get_signal_data's "return None", as the empty tuple
NoData == << >>

\* DataManager.get_signal_data
GetSignalData(c, key) ==
    IF key \notin CacheKeys(c) THEN NoData
    ELSE <<c[IndexOf(c, key)].x_data, c[IndexOf(c, key)].y_data>>

\* DataManager.cache_decimated_data
CacheDecimatedData(c, key, x, y) ==
    IF key \in CacheKeys(c)
    THEN [c EXCEPT ![IndexOf(c, key)].decimated_data = <<x, y>>]
    ELSE c

\* DataManager.cache_statistics
CacheStatistics(c, key, st) ==
    IF key \in CacheKeys(c)
    THEN [c EXCEPT ![IndexOf(c, key)].statistics = st]
    ELSE c

\* DataManager.remove_signal
RemoveSignal(c, key) == SelectSeq(c, LAMBDA e : e.key # key)

\* DataManager.clear_cache
ClearCache(c) == << >>

(* history of touches: a touch moves the key to the most-recent end *)
Without(t, key) == SelectSeq(t, LAMBDA k : k # key)
Touch(t, key) == Append(Without(t, key), key)
Restrict(t, ks) == SelectSeq(t, LAMBDA k : k \in ks)
NoEvict == [new_into_full |-> FALSE, victims |-> {}, lru |-> None, had_derived |-> FALSE]

CacheArrays == {Arr(0, "value", n) : n \in 0..MaxCacheLen}

\* the entry of key holds decimated data or statistics
HasDerived(c, key) ==
    /\ key \in CacheKeys(c)
    /\ c[IndexOf(c, key)].decimated_data # << >> \/ c[IndexOf(c, key)].statistics # None

InitCache ==
    /\ signal_cache = << >>
    /\ touched = << >>
    /\ lastEvict = NoEvict

cache_signal(key, x, y) ==
    LET c2 == CacheSignal(signal_cache, key, x, y)
    IN  /\ signal_cache' = c2
        /\ touched' = Touch(Restrict(touched, CacheKeys(c2)), key)
        /\ lastEvict' = [new_into_full |-> key \notin CacheKeys(signal_cache)
                                           /\ Len(signal_cache) = max_cache_size,
                         victims |-> CacheKeys(signal_cache) \ CacheKeys(c2),
                         lru |-> IF touched = << >> THEN None ELSE Head(touched),
                         had_derived |-> HasDerived(signal_cache, key)]

get_signal_data(key) ==
    /\ key \in CacheKeys(signal_cache)
    /\ touched' = Touch(touched, key)
    /\ UNCHANGED <<signal_cache, lastEvict>>

cache_decimated_data(key, x, y) ==
    /\ signal_cache' = CacheDecimatedData(signal_cache, key, x, y)
    /\ touched' = IF key \in CacheKeys(signal_cache) THEN Touch(touched, key) ELSE touched
    /\ UNCHANGED lastEvict

cache_statistics(key, st) ==
    /\ signal_cache' = CacheStatistics(signal_cache, key, st)
    /\ touched' = IF key \in CacheKeys(signal_cache) THEN Touch(touched, key) ELSE touched
    /\ UNCHANGED lastEvict

remove_signal(key) ==
    /\ signal_cache' = RemoveSignal(signal_cache, key)
    /\ touched' = Without(touched, key)
    /\ UNCHANGED lastEvict

clear_cache ==
    /\ signal_cache' = ClearCache(signal_cache)
    /\ touched' = << >>
    /\ UNCHANGED lastEvict

DMCacheSignal == \E k \in Keys, n \in 0..MaxCacheLen :
    cache_signal(k, Arr(0, "time", n), Arr(0, "value", n)) /\ UNCHANGED <<plotVars, tableVars, viewVars, procVars, fileVars>>
DMGetSignalData == \E k \in Keys :
    get_signal_data(k) /\ UNCHANGED <<plotVars, tableVars, viewVars, procVars, fileVars>>
DMCacheDecimated == \E k \in Keys, x \in CacheArrays :
    cache_decimated_data(k, x, x) /\ UNCHANGED <<plotVars, tableVars, viewVars, procVars, fileVars>>
DMCacheStatistics == \E k \in Keys :
    cache_statistics(k, "stats") /\ UNCHANGED <<plotVars, tableVars, viewVars, procVars, fileVars>>
DMRemoveSignal == \E k \in Keys :
    remove_signal(k) /\ UNCHANGED <<plotVars, tableVars, viewVars, procVars, fileVars>>
DMClearCache ==
    clear_cache /\ UNCHANGED <<plotVars, tableVars, viewVars, procVars, fileVars>>

(* ------------------------------------------------- DataManager properties *)
\* C1: after any sequence of cache_signal, cache_decimated_data, cache_statistics,
\* remove_signal and clear_cache calls the signal cache never holds more than
\* max_cache_size entries.
C1_CacheNeverExceedsCapacity == Len(signal_cache) <= max_cache_size

\* C1 witness: a cache_signal call has evicted an entry and left the cache full.
C1_Witness == lastEvict.victims # {} /\ Len(signal_cache) = max_cache_size

\* C2: when cache_signal inserts a new key into a full cache, exactly one entry is
\* evicted and it is the least recently touched one (get_signal_data, cache_signal,
\* cache_decimated_data and cache_statistics each counting as a touch).
C2_EvictsLeastRecentlyTouched ==
    lastEvict.new_into_full => lastEvict.victims = {lastEvict.lru}


(* -------------------------------------------------------------- PlotWorker *)
\* events carried by PlotWorkerSignals; every event names the worker that emitted it
ChunkEv(w, kind, lo, hi, step, is_final) ==
    [w |-> w, sig |-> "chunk_ready", kind |-> kind, lo |-> lo, hi |-> hi,
     step |-> step, is_final |-> is_final, pct |-> 0]
ProgressEv(w, pct) ==
    [w |-> w, sig |-> "progress", kind |-> None, lo |-> 0, hi |-> 0,
     step |-> 0, is_final |-> FALSE, pct |-> pct]
StoredEv(w) ==
    [w |-> w, sig |-> "data_stored", kind |-> None, lo |-> 0, hi |-> 0,
     step |-> 0, is_final |-> FALSE, pct |-> 0]
ErrorEv(w) ==
    [w |-> w, sig |-> "error", kind |-> None, lo |-> 0, hi |-> 0,
     step |-> 0, is_final |-> FALSE, pct |-> 0]

\* PlotWorker.__init__: value_data (its length, whether all its items are numbers) and
\* time_data (what it holds, its length, whether all its items are numbers);
\* tlen = -1 stands for time_data = None
NewWorker(key, vlen, numeric, tkind, tlen, tnumeric) ==
    [signal_key |-> key, vlen |-> vlen, numeric |-> numeric, tkind |-> tkind,
     tlen |-> tlen, tnumeric |-> tnumeric, should_continue |-> TRUE, pc |-> "start",
     x_data |-> NoArray, y_data |-> NoArray, processed_points |-> 0]

\* y_data = np.array(self.value_data, dtype=np.float64)
YData(w, vlen) == Arr(w, "value", vlen)

\* mutant: a supplied time channel is used without the numeric test
XData_TimeAsIs(w, vlen, tkind, tlen, tnumeric) ==
    IF tlen # -1 THEN Arr(w, tkind, tlen) ELSE Arr(w, "index", vlen)

\* x_data: the time channel when one is supplied and numeric, else np.arange(len(y_data))
XData(w, vlen, tkind, tlen, tnumeric) ==
    IF tlen # -1
    THEN IF ~tnumeric THEN Arr(w, "index", vlen) ELSE Arr(w, tkind, tlen)
    ELSE Arr(w, "index", vlen)

\* mutant: the overview is also produced for a channel of exactly INITIAL_POINTS samples
OverviewCond_Inclusive(total_points, should_continue) ==
    total_points >= INITIAL_POINTS /\ should_continue

\* if total_points > self.INITIAL_POINTS and self.should_continue
OverviewCond(total_points, should_continue) ==
    total_points > INITIAL_POINTS /\ should_continue

\* mutant: the chunk loop does not poll the cancellation flag
LoopCond_NoPoll(processed_points, total_points, should_continue) ==
    processed_points < total_points

\* while processed_points < total_points and self.should_continue
LoopCond(processed_points, total_points, should_continue) ==
    processed_points < total_points /\ should_continue

\* if self.should_continue (before data_stored)
StoreCond(should_continue) == should_continue

\* mutant: the chunk end is not clipped to the channel length
ChunkEnd_Unclipped(processed_points, total_points) == processed_points + CHUNK_SIZE

\* chunk_end = min(processed_points + self.CHUNK_SIZE, total_points)
ChunkEnd(processed_points, total_points) ==
    Min(processed_points + CHUNK_SIZE, total_points)

\* int((processed_points / total_points) * 100)
Progress(processed_points, total_points) == (processed_points * 100) \div total_points

\* SignalProcessor.decimate_data, the stride it applies: 1 (data returned unchanged)
\* when len(x_data) <= target_points, else max(1, len(x_data) // target_points)
DecimateFactor(xlen, target_points) ==
    IF xlen <= target_points THEN 1 ELSE Max(1, xlen \div target_points)

\* mutant: the non-numeric branch reports the error and carries on
AfterError_NoReturn == "store_check"

\* self.signals.error.emit(...); return
AfterError == "done"

\* signal.emit(...) from the worker thread: the call is queued for the GUI thread
Emit(w, ev) ==
    /\ emitted' = [emitted EXCEPT ![w] = Append(@, ev)]
    /\ UNCHANGED handled

Goto(w, pc) == workers' = [workers EXCEPT ![w].pc = pc]

\* run(), lines 48-73: numeric check of value_data, conversion of both arrays
WStart(w) ==
    /\ workers[w].pc = "start"
    /\ LET me == workers[w] IN
       IF ~me.numeric
       THEN /\ Emit(w, ErrorEv(w))
            /\ workers' = [workers EXCEPT ![w].pc = AfterError]
       ELSE /\ workers' = [workers EXCEPT
                    ![w].y_data = YData(w, me.vlen),
                    ![w].x_data = XData(w, me.vlen, me.tkind, me.tlen, me.tnumeric),
                    ![w].processed_points = 0,
                    ![w].pc = "overview_check"]
            /\ UNCHANGED <<emitted, handled>>
    /\ UNCHANGED <<current_plots, staleApplied, cacheVars, tableVars, viewVars, procVars, fileVars>>

\* run(), line 76: the test that guards the overview
WOverviewCheck(w) ==
    /\ workers[w].pc = "overview_check"
    /\ IF OverviewCond(workers[w].y_data.len, workers[w].should_continue)
       THEN Goto(w, "overview_emit")
       ELSE Goto(w, "loop_check")
    /\ UNCHANGED <<emitted, handled, current_plots, staleApplied, cacheVars, tableVars,
               viewVars, procVars, fileVars>>

\* run(), lines 77-80: decimate the whole channel and emit it with is_final = False
WOverviewEmit(w) ==
    /\ workers[w].pc = "overview_emit"
    /\ Emit(w, ChunkEv(w, "overview", 0, workers[w].y_data.len,
                       DecimateFactor(workers[w].x_data.len, INITIAL_POINTS), FALSE))
    /\ Goto(w, "overview_progress")
    /\ UNCHANGED <<current_plots, staleApplied, cacheVars, tableVars, viewVars, procVars, fileVars>>

\* run(), lines 83-85
WOverviewProgress(w) ==
    /\ workers[w].pc = "overview_progress"
    /\ Emit(w, ProgressEv(w, Progress(INITIAL_POINTS, workers[w].y_data.len)))
    /\ workers' = [workers EXCEPT ![w].processed_points = INITIAL_POINTS,
                                  ![w].pc = "loop_check"]
    /\ UNCHANGED <<current_plots, staleApplied, cacheVars, tableVars, viewVars, procVars, fileVars>>

\* run(), line 88: the loop test
WLoopCheck(w) ==
    /\ workers[w].pc = "loop_check"
    /\ IF LoopCond(workers[w].processed_points, workers[w].y_data.len,
                   workers[w].should_continue)
       THEN Goto(w, "chunk_emit")
       ELSE Goto(w, "store_check")
    /\ UNCHANGED <<emitted, handled, current_plots, staleApplied, cacheVars, tableVars,
               viewVars, procVars, fileVars>>

\* run(), lines 89-95: slice the next chunk and emit it
WChunkEmit(w) ==
    /\ workers[w].pc = "chunk_emit"
    /\ LET me == workers[w]
           chunk_end == ChunkEnd(me.processed_points, me.y_data.len)
       IN  Emit(w, ChunkEv(w, "raw", me.processed_points, chunk_end, 1,
                           chunk_end = me.y_data.len))
    /\ Goto(w, "chunk_progress")
    /\ UNCHANGED <<current_plots, staleApplied, cacheVars, tableVars, viewVars, procVars, fileVars>>

\* run(), lines 97-99
WChunkProgress(w) ==
    /\ workers[w].pc = "chunk_progress"
    /\ LET me == workers[w]
           chunk_end == ChunkEnd(me.processed_points, me.y_data.len)
       IN  /\ Emit(w, ProgressEv(w, Progress(chunk_end, me.y_data.len)))
           /\ workers' = [workers EXCEPT ![w].processed_points = chunk_end,
                                         ![w].pc = "loop_check"]
    /\ UNCHANGED <<current_plots, staleApplied, cacheVars, tableVars, viewVars, procVars, fileVars>>

\* run(), line 102: the test that guards data_stored
WStoreCheck(w) ==
    /\ workers[w].pc = "store_check"
    /\ IF StoreCond(workers[w].should_continue)
       THEN Goto(w, "store_emit")
       ELSE Goto(w, "done")
    /\ UNCHANGED <<emitted, handled, current_plots, staleApplied, cacheVars, tableVars,
               viewVars, procVars, fileVars>>

\* run(), line 103
WStoreEmit(w) ==
    /\ workers[w].pc = "store_emit"
    /\ Emit(w, StoredEv(w))
    /\ Goto(w, "done")
    /\ UNCHANGED <<current_plots, staleApplied, cacheVars, tableVars, viewVars, procVars, fileVars>>

\* PlotWorker.stop, called from the consumer thread
stop(w) ==
    /\ workers[w].should_continue
    /\ workers' = [workers EXCEPT ![w].should_continue = FALSE]
    /\ UNCHANGED <<emitted, handled, current_plots, staleApplied, cacheVars, tableVars,
               viewVars, procVars, fileVars>>

WorkerStep(w) ==
    \/ WStart(w)
    \/ WOverviewCheck(w)
    \/ WOverviewEmit(w)
    \/ WOverviewProgress(w)
    \/ WLoopCheck(w)
    \/ WChunkEmit(w)
    \/ WChunkProgress(w)
    \/ WStoreCheck(w)
    \/ WStoreEmit(w)

(* -------------------------------------------------------------- GraphWidget *)
PlotKeys(cp) == {cp[i].key : i \in 1..Len(cp)}
PlotIndex(cp, key) == CHOOSE i \in 1..Len(cp) : cp[i].key = key

\* The emissions of one worker reach the GUI thread in the order emitted (queued
\* connections); the emissions of different workers interleave in any order.
NextEvent(w) == emitted[w][handled[w] + 1]
Queued(w, sig) == handled[w] < Len(emitted[w]) /\ NextEvent(w).sig = sig
Dispatch(w) == handled' = [handled EXCEPT ![w] = @ + 1]

\* the (x, y) pair a chunk_ready event carries: a slice of the worker's arrays
ChunkData(ev) ==
    [w |-> ev.w, kind |-> ev.kind, lo |-> ev.lo, hi |-> ev.hi, step |-> ev.step]

\* every event of worker w has been handled and the last of them was data_stored
Completed(w) ==
    /\ workers[w].pc = "done"
    /\ emitted[w] # << >> /\ Last(emitted[w]).sig = "data_stored"
    /\ handled[w] = Len(emitted[w])

\* a later load of the same key has already completed
Superseded(w) ==
    \E w2 \in (w + 1)..Len(workers) :
        workers[w2].signal_key = workers[w].signal_key /\ Completed(w2)

NoteStale(w) ==
    staleApplied' = IF Superseded(w) THEN staleApplied \cup {w} ELSE staleApplied

\* GraphWidget.add_plot: start a PlotWorker unless the key is already plotted
add_plot(key, vlen, numeric, tkind, tlen, tnumeric) ==
    /\ key \notin PlotKeys(current_plots)
    /\ Len(workers) < MaxLoads
    /\ workers' = Append(workers, NewWorker(key, vlen, numeric, tkind, tlen, tnumeric))
    /\ emitted' = Append(emitted, << >>)
    /\ handled' = Append(handled, 0)
    /\ UNCHANGED <<current_plots, staleApplied, cacheVars, tableVars, viewVars, procVars, fileVars>>

\* GraphWidget.remove_plot: what it does to the plots and the cache
RemovePlot(key) ==
    /\ key \in PlotKeys(current_plots)
    /\ current_plots' = SelectSeq(current_plots, LAMBDA p : p.key # key)
    /\ signal_cache' = RemoveSignal(signal_cache, key)
    /\ UNCHANGED <<workers, emitted, handled, staleApplied, touched, lastEvict, tableVars,
               viewVars, procVars>>

\* GraphWidget.remove_plot
remove_plot(key) == RemovePlot(key) /\ UNCHANGED fileVars

\* GraphWidget.clear_plots
ClearPlots ==
    /\ current_plots' = << >>
    /\ signal_cache' = ClearCache(signal_cache)
    \* plot_widget.clear() takes the cursor lines out of the plot as well
    /\ cursor_shown' = FALSE
    /\ cursor_positions' = <<Nothing, Nothing>>
    /\ cursor_y_values' = <<YNone, YNone>>
    /\ cursor_active' = 1
    /\ UNCHANGED <<workers, emitted, handled, staleApplied, touched, lastEvict,
                   cursor_enabled, cursor_created, auto_range_enabled, last_view_range,
                   view_range, snapVars, procVars>>

\* GraphWidget.clear_plots
clear_plots == ClearPlots /\ UNCHANGED <<tableVars, fileVars>>

\* MainWindow.on_file_loaded for a file that tdms_handler.load_file could read:
\* graph_widget.clear_plots() and table_widget.clear_table(); the workers still running
\* are left alone
on_file_loaded ==
    /\ ClearPlots
    /\ table' = {}
    /\ row_count' = 0
    /\ column_count' = 2
    /\ old_workers' = 1..Len(workers)
    /\ UNCHANGED removed
    /\ UNCHANGED <<table_worker_id, current_table_worker, tworkers, temitted, thandled,
                   is_fully_loaded, staleDropped, plot_keys, tab_index, built_keys,
                   scrollVars, widgetVars>>

\* on_plot_chunk_ready, lines 147-158: create the plot item or replace its data
SetPlotData(cp, key, data) ==
    IF key \notin PlotKeys(cp)
    THEN Append(cp, [key |-> key, data |-> data])
    ELSE [cp EXCEPT ![PlotIndex(cp, key)].data = data]

\* GraphWidget.on_plot_chunk_ready, for the oldest queued event of worker w
on_plot_chunk_ready(w) ==
    /\ Queued(w, "chunk_ready")
    /\ LET ev == NextEvent(w) IN
       current_plots' = SetPlotData(current_plots, workers[w].signal_key, ChunkData(ev))
    /\ NoteStale(w)
    /\ Dispatch(w)
    /\ UNCHANGED <<workers, emitted, cacheVars, tableVars, viewVars, procVars, fileVars>>

\* mutant: the full-resolution data is dropped instead of cached
StoreSignal_Dropped(c, key, x, y) == c

\* on_data_stored, line 169: self.data_manager.cache_signal(signal_key, x_data, y_data)
StoreSignal(c, key, x, y) == CacheSignal(c, key, x, y)

\* GraphWidget.on_data_stored, for the oldest queued event of worker w
on_data_stored(w) ==
    /\ Queued(w, "data_stored")
    /\ signal_cache' = StoreSignal(signal_cache, workers[w].signal_key,
                                   workers[w].x_data, workers[w].y_data)
    /\ NoteStale(w)
    /\ Dispatch(w)
    /\ UNCHANGED <<workers, emitted, current_plots, touched, lastEvict, tableVars,
               viewVars, procVars, fileVars>>

\* GraphWidget.on_plot_progress: nothing but taking the event off the queue
on_plot_progress(w) ==
    /\ Queued(w, "progress")
    /\ Dispatch(w)
    /\ UNCHANGED <<workers, emitted, current_plots, staleApplied, cacheVars, tableVars,
               viewVars, procVars, fileVars>>

\* mutant: a failed load is started again
on_plot_error_Retry(w) ==
    /\ Queued(w, "error")
    /\ IF Len(workers) < MaxWorkers
       THEN /\ workers' = Append(workers, [workers[w] EXCEPT !.pc = "start"])
            /\ emitted' = Append(emitted, << >>)
            /\ handled' = Append([handled EXCEPT ![w] = @ + 1], 0)
       ELSE /\ Dispatch(w)
            /\ UNCHANGED <<workers, emitted>>
    /\ UNCHANGED <<current_plots, staleApplied, cacheVars, tableVars, viewVars, procVars, fileVars>>

\* GraphWidget.on_plot_error: prints the message
on_plot_error(w) ==
    /\ Queued(w, "error")
    /\ Dispatch(w)
    /\ UNCHANGED <<workers, emitted, current_plots, staleApplied, cacheVars, tableVars,
               viewVars, procVars, fileVars>>

(* --------------------------------------------------- PlotWorker properties *)
Started(w) == w <= Len(workers)
Chunks(w) == SelectSeq(emitted[w], LAMBDA e : e.sig = "chunk_ready")
RawChunks(w) == SelectSeq(emitted[w], LAMBDA e : e.sig = "chunk_ready" /\ e.kind = "raw")
Terminal(e) == e.sig \in {"data_stored", "error"}
Terminals(w) == SelectSeq(emitted[w], Terminal)
NonError(em) == SelectSeq(em, LAMBDA e : e.sig # "error")
HasSig(w, sig) == \E i \in 1..Len(emitted[w]) : emitted[w][i].sig = sig
\* the run of worker w went through to the end with the flag never cleared and no error
RanToEnd(w) == workers[w].pc = "done" /\ workers[w].should_continue /\ ~HasSig(w, "error")
\* the places of run() from which nothing is emitted before should_continue is read again
\* (or nothing is left to do)
PollPoints == {"start", "overview_check", "loop_check", "store_check", "done"}

\* C5 (as claimed): once stop() has cleared should_continue, the worker emits no
\* further chunk_ready or progress event and never data_stored, wherever in run()
\* the flag was cleared.
C5_NoEmitAfterStop ==
    [][\A w \in 1..Len(workers) :
          ~workers[w].should_continue
             => NonError(emitted'[w]) = NonError(emitted[w])]_vars

\* C5 (amended): once stop() has cleared should_continue and the worker stands at a
\* test of the flag, it never emits chunk_ready, progress or data_stored again; only an
\* emission whose test had passed before stop() can still follow the stop.
C5_NoEmitAfterNextPoll ==
    [][\A w \in 1..Len(workers) :
          (~workers[w].should_continue /\ workers[w].pc \in PollPoints)
             => /\ workers'[w].pc \in PollPoints
                /\ NonError(emitted'[w]) = NonError(emitted[w])]_vars

\* C5 witness: a worker cancelled in mid-run has ended after some chunks, without data_stored.
C5_Witness ==
    \E w \in 1..Len(workers) :
        /\ ~workers[w].should_continue /\ workers[w].pc = "done"
        /\ RawChunks(w) # << >> /\ ~HasSig(w, "data_stored")
        /\ workers[w].processed_points < workers[w].y_data.len

\* C6: a run that is not cancelled ends with exactly one terminal event (data_stored or
\* error, never both), and no event at all follows a terminal event.
C6_OneTerminalEvent ==
    \A w \in 1..Len(workers) :
        /\ Len(Terminals(w)) <= 1
        /\ Len(Terminals(w)) = 1 => Terminal(Last(emitted[w]))
        /\ (workers[w].pc = "done" /\ workers[w].should_continue) => Len(Terminals(w)) = 1

\* C6 witness: an uncancelled run has ended with data_stored after chunks and progress.
C6_Witness ==
    \E w \in 1..Len(workers) :
        /\ workers[w].pc = "done" /\ workers[w].should_continue
        /\ Len(emitted[w]) > 2 /\ Last(emitted[w]).sig = "data_stored"

\* C7: when the channel is longer than INITIAL_POINTS the first chunk_ready of the load
\* is the decimated overview of the whole channel, with is_final = False; when it is
\* not longer, no overview chunk is emitted.
C7_OverviewFirst ==
    \A w \in 1..Len(workers) :
        workers[w].y_data # NoArray =>
            LET total == workers[w].y_data.len
                ch == Chunks(w)
            IN  /\ (total > INITIAL_POINTS /\ ch # << >>) =>
                      ch[1] = ChunkEv(w, "overview", 0, total,
                                      DecimateFactor(workers[w].x_data.len, INITIAL_POINTS),
                                      FALSE)
                /\ total <= INITIAL_POINTS =>
                      \A i \in 1..Len(ch) : ch[i].kind # "overview"

\* C7 witness: a load of a long channel has emitted its overview and then a raw chunk.
C7_Witness ==
    \E w \in 1..Len(workers) :
        /\ Len(Chunks(w)) >= 2
        /\ Chunks(w)[1].kind = "overview" /\ Chunks(w)[1].step > 1
        /\ Chunks(w)[2].kind = "raw"

\* the raw chunks of w come in ascending order, each starting where the one before
\* ended, each CHUNK_SIZE long except possibly the last
RawChunksInOrder(w) ==
    LET raw == RawChunks(w) IN
    /\ \A i \in 1..Len(raw) : raw[i].lo < raw[i].hi
    /\ \A i \in 1..Len(raw) - 1 :
          raw[i + 1].lo = raw[i].hi /\ raw[i].hi - raw[i].lo = CHUNK_SIZE
    /\ \A i \in 1..Len(raw) : raw[i].hi - raw[i].lo <= CHUNK_SIZE

\* exactly one chunk_ready of w has is_final = True, and it is the last chunk_ready,
\* followed by data_stored
OneFinalChunk(w) ==
    LET ch == Chunks(w) IN
    /\ Cardinality({i \in 1..Len(ch) : ch[i].is_final}) = 1
    /\ Last(ch).is_final /\ Last(ch).kind = "raw"
    /\ Last(emitted[w]).sig = "data_stored"

\* C8 (as claimed): in every run neither cancelled nor failed the raw chunks are ascending,
\* contiguous, CHUNK_SIZE long except the last, and exactly one chunk_ready is final, the
\* last one before data_stored -- for every channel length, 0 included.
C8_ChunksAndOneFinal ==
    \A w \in 1..Len(workers) :
        RanToEnd(w) => RawChunksInOrder(w) /\ OneFinalChunk(w)

\* C8 (amended): the same for every channel of length >= 1; for a channel of length 0
\* the run emits no chunk_ready at all (so no final one) and goes straight to data_stored.
C8_ChunksAndOneFinalNonEmpty ==
    \A w \in 1..Len(workers) :
        RanToEnd(w) =>
            IF workers[w].y_data.len >= 1
            THEN RawChunksInOrder(w) /\ OneFinalChunk(w)
            ELSE Chunks(w) = << >> /\ Last(emitted[w]).sig = "data_stored"

\* C8 witness: a run has ended after several raw chunks, the last one short and final.
C8_Witness ==
    \E w \in 1..Len(workers) :
        /\ RanToEnd(w) /\ Len(RawChunks(w)) >= 2
        /\ Last(RawChunks(w)).hi - Last(RawChunks(w)).lo < CHUNK_SIZE
        /\ Last(RawChunks(w)).is_final

(* ------------------------------------------- TDMSViewer table and TableWorker *)
TChunkEv(start_row, nrows) == [sig |-> "chunk_ready", start_row |-> start_row, nrows |-> nrows]
TFinishedEv == [sig |-> "finished", start_row |-> 0, nrows |-> 0]

\* TableWorker.__init__ plus the worker_id the viewer captures in the connected lambdas;
\* max_rows = max(len(x) for x, _ in chunks)
RECURSIVE SeqMax(_)
SeqMax(q) == IF q = << >> THEN 0 ELSE Max(Head(q), SeqMax(Tail(q)))

NewTableWorker(worker_id, max_rows) ==
    [worker_id |-> worker_id, max_rows |-> max_rows, current_row |-> 0,
     should_continue |-> TRUE, pc |-> "loop_check"]

TEmit(t, ev) ==
    /\ temitted' = [temitted EXCEPT ![t] = Append(@, ev)]
    /\ UNCHANGED thandled

\* TableWorker.run: while current_row < max_rows and self.should_continue
TLoopCheck(t) ==
    /\ tworkers[t].pc = "loop_check"
    /\ tworkers' = [tworkers EXCEPT ![t].pc =
            IF tworkers[t].current_row < tworkers[t].max_rows /\ tworkers[t].should_continue
            THEN "chunk_emit" ELSE "finish_check"]
    /\ UNCHANGED <<table_worker_id, current_table_worker, temitted, thandled, table,
                   is_fully_loaded, staleDropped, tabVars, scrollVars, cacheVars, plotVars, viewVars,
                   procVars, fileVars, widgetVars>>

\* TableWorker.run: process_chunk, chunk_ready.emit, current_row += chunk_size
TChunkEmit(t) ==
    /\ tworkers[t].pc = "chunk_emit"
    /\ LET me == tworkers[t]
           end_row == Min(me.current_row + TABLE_CHUNK, me.max_rows)
       IN  /\ TEmit(t, TChunkEv(me.current_row, end_row - me.current_row))
           /\ tworkers' = [tworkers EXCEPT ![t].current_row = me.current_row + TABLE_CHUNK,
                                           ![t].pc = "loop_check"]
    /\ UNCHANGED <<table_worker_id, current_table_worker, table, is_fully_loaded,
                   staleDropped, tabVars, scrollVars, cacheVars, plotVars, viewVars,
                   procVars, fileVars, widgetVars>>

\* TableWorker.run: if self.should_continue (before finished)
TFinishCheck(t) ==
    /\ tworkers[t].pc = "finish_check"
    /\ tworkers' = [tworkers EXCEPT ![t].pc =
            IF tworkers[t].should_continue THEN "finish_emit" ELSE "done"]
    /\ UNCHANGED <<table_worker_id, current_table_worker, temitted, thandled, table,
                   is_fully_loaded, staleDropped, tabVars, scrollVars, cacheVars, plotVars, viewVars,
                   procVars, fileVars, widgetVars>>

\* TableWorker.run: self.signals.finished.emit()
TFinishEmit(t) ==
    /\ tworkers[t].pc = "finish_emit"
    /\ TEmit(t, TFinishedEv)
    /\ tworkers' = [tworkers EXCEPT ![t].pc = "done"]
    /\ UNCHANGED <<table_worker_id, current_table_worker, table, is_fully_loaded,
                   staleDropped, tabVars, scrollVars, cacheVars, plotVars, viewVars,
                   procVars, fileVars, widgetVars>>

\* TDMSViewer.update_table followed by load_table_data: cancel the current worker, take the
\* next worker id, rebuild the table structure (which clears the cells) and, when there
\* are data pairs, start a worker under the new id.  first_two: the first two plotted keys;
\* pair_rows: the length of the time channel of each of them that has one; cached_rows:
\* the longest cached x_data of the plotted signals.
UpdateTable(first_two, pair_rows, cached_rows) ==
    /\ table_worker_id < MaxRebuilds
    /\ LET current_id == table_worker_id + 1
           stopped == IF current_table_worker # 0
                      THEN [tworkers EXCEPT ![current_table_worker].should_continue = FALSE]
                      ELSE tworkers
       IN  /\ table_worker_id' = current_id
           /\ table' = {}
           \* setup_table_structure: two columns per data pair, at least one row
           /\ column_count' = 2 * Len(pair_rows)
           /\ row_count' = Max(1, cached_rows)
           /\ IF pair_rows # << >>
              THEN /\ plot_keys' = first_two
                   /\ tworkers' = Append(stopped, NewTableWorker(current_id, SeqMax(pair_rows)))
                   /\ current_table_worker' = Len(tworkers) + 1
                   /\ temitted' = Append(temitted, << >>)
                   /\ thandled' = Append(thandled, 0)
              ELSE /\ tworkers' = stopped
                   /\ UNCHANGED <<plot_keys, current_table_worker, temitted, thandled>>
    /\ built_keys' = PlotKeys(current_plots)

\* update_table called by the viewer when the plots change
update_table(first_two, pair_rows, cached_rows) ==
    /\ UpdateTable(first_two, pair_rows, cached_rows)
    /\ UNCHANGED <<tab_index, is_fully_loaded, staleDropped, scrollVars, cacheVars, plotVars,
                   viewVars, procVars, fileVars, widgetVars>>

\* mutant: chunks are written whatever worker they come from
IsCurrentWorker_Always(worker_id, current_id) == TRUE

\* the fence of on_incremental_chunk_ready and on_table_load_finished:
\* worker_id == self.table_worker_id
IsCurrentWorker(worker_id, current_id) == worker_id = current_id

TNextEvent(t) == temitted[t][thandled[t] + 1]
TQueued(t, sig) == thandled[t] < Len(temitted[t]) /\ TNextEvent(t).sig = sig

\* table_widget.setItem for every row of the chunk
WriteRows(tb, start_row, nrows, worker_id) ==
    LET rows == start_row..(start_row + nrows - 1)
    IN  {c \in tb : c[1] \notin rows} \cup {<<r, worker_id>> : r \in rows}

\* TDMSViewer.on_incremental_chunk_ready, for the oldest queued event of worker t
on_incremental_chunk_ready(t) ==
    /\ TQueued(t, "chunk_ready")
    /\ thandled' = [thandled EXCEPT ![t] = @ + 1]
    /\ IF ~IsCurrentWorker(tworkers[t].worker_id, table_worker_id)
       THEN /\ staleDropped' = TRUE
            /\ UNCHANGED table
       ELSE /\ table' = WriteRows(table, TNextEvent(t).start_row, TNextEvent(t).nrows,
                                  tworkers[t].worker_id)
            /\ UNCHANGED staleDropped
    /\ UNCHANGED <<table_worker_id, current_table_worker, tworkers, temitted,
                   is_fully_loaded, tabVars, scrollVars, cacheVars, plotVars, viewVars,
                   procVars, fileVars, widgetVars>>

\* TDMSViewer.on_table_load_finished, for the oldest queued event of worker t
on_table_load_finished(t) ==
    /\ TQueued(t, "finished")
    /\ thandled' = [thandled EXCEPT ![t] = @ + 1]
    /\ is_fully_loaded' = IF IsCurrentWorker(tworkers[t].worker_id, table_worker_id)
                          THEN TRUE ELSE is_fully_loaded
    /\ UNCHANGED <<table_worker_id, current_table_worker, tworkers, temitted, table,
                   staleDropped, tabVars, scrollVars, cacheVars, plotVars, viewVars,
                   procVars, fileVars, widgetVars>>

(* ------------------------------------------------------------ table properties *)
\* C4: every table rebuild takes a worker id strictly greater than all earlier ones, and
\* no chunk_ready of a worker started by an earlier rebuild writes a table cell once a
\* later rebuild has started: every filled row was written under the current worker id.
C4_StaleTableChunksDropped ==
    /\ \A i \in 1..Len(tworkers) : tworkers[i].worker_id <= table_worker_id
    /\ \A i \in 1..Len(tworkers), j \in 1..Len(tworkers) :
          i < j => tworkers[i].worker_id < tworkers[j].worker_id
    /\ \A c \in table : c[2] = table_worker_id

\* C4 witness: a chunk of a superseded worker was delivered and dropped, and the table
\* holds rows written by the current worker.
C4_Witness == staleDropped /\ table # {} /\ Len(tworkers) >= 2

(* -------------------------------------------------- GraphWidget properties *)
\* C3: of two overlapping plot loads of one key, no chunk_ready or data_stored event of
\* the earlier worker is applied to the plot or to the signal cache after the later one
\* has completed, whatever the delivery order.
C3_NoStaleEventApplied == staleApplied = {}

Cancelled(w) == ~workers[w].should_continue
Failed(w) == HasSig(w, "error")
\* data_stored of w has been handled, after all its chunks, and the signal cache holds
\* the full-resolution arrays of w under its key
StoredInCache(w) ==
    /\ Completed(w)
    /\ GetSignalData(signal_cache, workers[w].signal_key)
          = <<workers[w].x_data, workers[w].y_data>>

\* C9: a plot load that is not cancelled and does not fail eventually has its data_stored
\* handled after all its chunks, and the signal cache then holds an entry for its key with
\* the channel's full-resolution x and y arrays.  (Checked without the claim's further
\* premise that the key is not removed or cleared meanwhile: it holds either way.)
C9_LoadEventuallyStored ==
    \A w \in 1..MaxWorkers :
        []((Started(w) /\ workers[w].pc = "start")
              => <>(Started(w) /\ (Cancelled(w) \/ Failed(w) \/ StoredInCache(w))))

\* C9 witness: a load has streamed overview and raw chunks, its data_stored was handled
\* and the cache holds its arrays.
C9_Witness ==
    \E w \in 1..Len(workers) :
        /\ workers[w].should_continue /\ StoredInCache(w)
        /\ Len(Chunks(w)) >= 2

\* C10: every entry a plot load stores in the signal cache has len(x_data) = len(y_data),
\* also when the time channel's length differs from the value channel's.
C10_CachedLengthsMatch ==
    \A i \in 1..Len(signal_cache) :
        signal_cache[i].x_data.len = signal_cache[i].y_data.len

(* ---------------------------------------------------- failed load properties *)
Errors(w) == SelectSeq(emitted[w], LAMBDA e : e.sig = "error")

\* C12: a plot load that fails emits exactly one error event and nothing after it, the
\* load is not retried (handling the error starts no worker), and the failed load leaves
\* the signal cache as it was: no step of the failed worker and no handling of its
\* error changes any cache entry.
C12_FailedLoadLeavesCache ==
    [][\A w \in 1..Len(workers) :
          /\ Failed(w)' => Len(Errors(w))' = 1 /\ ~HasSig(w, "data_stored")'
          /\ Failed(w) => emitted'[w] = emitted[w]
          /\ (Failed(w) /\ handled'[w] # handled[w])
                => /\ workers' = workers
                   /\ signal_cache' = signal_cache
                   /\ current_plots' = current_plots]_vars

\* C12 witness: the error of a failed load has been handled while the cache holds the
\* entry of another load.
C12_Witness ==
    \E w \in 1..Len(workers) :
        /\ Failed(w) /\ handled[w] = Len(emitted[w])
        /\ signal_cache # << >>
        /\ workers[w].signal_key \notin CacheKeys(signal_cache)

(* ---------------------------------------------------------- SignalProcessor *)
\* Arrays are sequences here; Python's 0-based index i is element i + 1.
\* a[start:end]
Slice(a, start, end) == SubSeq(a, start + 1, Min(end, Len(a)))

\* a[::factor]
Stride(a, factor) == [i \in 1..((Len(a) + factor - 1) \div factor) |-> a[(i - 1) * factor + 1]]

Abs(v) == IF v < 0 THEN -v ELSE v

\* np.searchsorted(array, value): the number of elements below value (array sorted)
SearchSorted(array, value) == Cardinality({i \in 1..Len(array) : array[i] < value})

\* helpers.find_nearest_index
FindNearestIndex(array, value) ==
    LET idx == SearchSorted(array, value)
    IN  IF idx = 0 THEN 0
        ELSE IF idx = Len(array) THEN Len(array) - 1
        ELSE IF Abs(value - array[idx]) < Abs(value - array[idx + 1]) THEN idx - 1
        ELSE idx

\* scipy.signal.decimate(y_data, factor, zero_phase=True): the low-pass filtered signal,
\* every factor-th sample of it; the filtered samples are new values
SignalDecimate(y_data, factor) ==
    [i \in 1..((Len(y_data) + factor - 1) \div factor) |->
        [filtered |-> y_data[(i - 1) * factor + 1], factor |-> factor]]

Returned(x, y) == [x |-> x, y |-> y, raised |-> FALSE]
Raised == [x |-> << >>, y |-> << >>, raised |-> TRUE]

\* mutant: the data is returned as it is only when it is shorter than the target
NoDecimation_Strict(len, target_points) == len < target_points

\* decimate_data, line 27: if len(x_data) <= target_points
NoDecimation(len, target_points) == len <= target_points

\* mutant: the fallback strides x only
StridedPair_XOnly(x_data, y_data, factor) == Returned(Stride(x_data, factor), y_data)

\* decimate_data, line 43: return x_data[::factor], y_data[::factor]
StridedPair(x_data, y_data, factor) ==
    Returned(Stride(x_data, factor), Stride(y_data, factor))

\* mutant: the failure of the filter is passed on to the caller
OnFilterError_Raise(x_data, y_data, factor) == Raised

\* decimate_data, lines 41-43: except Exception: fall back to simple decimation
OnFilterError(x_data, y_data, factor) == StridedPair(x_data, y_data, factor)

\* SignalProcessor.decimate_data; filter_ok: whether signal.decimate returns (it raises
\* on inputs it cannot filter)
DecimateData(x_data, y_data, target_points, filter_ok) ==
    IF NoDecimation(Len(x_data), target_points)
    THEN Returned(x_data, y_data)
    ELSE LET factor == Max(1, Len(x_data) \div target_points)
         IN  IF filter_ok
             THEN LET decimated_y == SignalDecimate(y_data, factor)
                      decimated_x == Stride(x_data, factor)
                      min_len == Min(Len(decimated_x), Len(decimated_y))
                  IN  Returned(Slice(decimated_x, 0, min_len), Slice(decimated_y, 0, min_len))
             ELSE OnFilterError(x_data, y_data, factor)

\* get_visible_data, lines 71-72: x_data[start_idx:end_idx]
VisibleEnd(end_idx) == end_idx

\* mutant: an empty range shows the whole signal
EmptyResult_WholeSignal(x_data, y_data) == Returned(x_data, y_data)

\* get_visible_data, line 68: return np.array([]), np.array([])
EmptyResult(x_data, y_data) == Returned(<< >>, << >>)

\* get_visible_data, line 67: if start_idx >= end_idx
EmptyRange(start_idx, end_idx) == start_idx >= end_idx

\* SignalProcessor.get_visible_data
GetVisibleData(x_data, y_data, x_min, x_max, target_points, filter_ok) ==
    LET start_idx == FindNearestIndex(x_data, x_min)
        end_idx == FindNearestIndex(x_data, x_max)
    IN  IF EmptyRange(start_idx, end_idx)
        THEN EmptyResult(x_data, y_data)
        ELSE LET visible_x == Slice(x_data, start_idx, VisibleEnd(end_idx))
                 visible_y == Slice(y_data, start_idx, VisibleEnd(end_idx))
             IN  IF Len(visible_x) > target_points
                 THEN DecimateData(visible_x, visible_y, target_points, filter_ok)
                 ELSE Returned(visible_x, visible_y)

\* SignalProcessor.get_y_at_x; idx is the 0-based index find_nearest_index gives
GetYAtX(x_value, x_data, y_data) ==
    IF Len(x_data) = 0 THEN YNone
    ELSE IF x_value < x_data[1] \/ x_value > Last(x_data) THEN YNone
    ELSE LET idx == FindNearestIndex(x_data, x_value)
         IN  IF idx > 0 /\ idx < Len(x_data)
             THEN LET x0 == x_data[idx]
                      x1 == x_data[idx + 1]
                      y0 == y_data[idx]
                      y1 == y_data[idx + 1]
                  IN  YAt(y0 * (x1 - x0) + (y1 - y0) * (x_value - x0), x1 - x0)
             ELSE YAt(y_data[idx + 1], 1)

NoCall == [op |-> "none", x |-> << >>, y |-> << >>, x_min |-> 0, x_max |-> 0,
           target_points |-> 1, filter_ok |-> TRUE]

InitProc ==
    /\ call = NoCall
    /\ result = Returned(<< >>, << >>)

\* the signals handed to the SignalProcessor: x strictly increasing, on a grid of step 2 so
\* that a view range can lie between two samples; y_data[i] is the sample taken at x_data[i]
XGrid == {2 * i : i \in 0..MaxX}
RECURSIVE Ascending(_)
Ascending(S) ==
    IF S = {} THEN << >>
    ELSE LET m == CHOOSE v \in S : \A u \in S : v <= u
         IN  <<m>> \o Ascending(S \ {m})
XSeqs == {Ascending(S) : S \in SUBSET XGrid}
YOf(x_data, ylen) == [i \in 1..ylen |-> IF i <= Len(x_data) THEN 100 + x_data[i] ELSE 100 - i]

\* the arguments of a call about to be made
DecimateArgs(x_data, y_data, target_points, filter_ok) ==
    [NoCall EXCEPT !.op = "decimate_args", !.x = x_data, !.y = y_data,
                   !.target_points = target_points, !.filter_ok = filter_ok]
VisibleArgs(x_data, y_data, x_min, x_max, target_points, filter_ok) ==
    [op |-> "visible_args", x |-> x_data, y |-> y_data, x_min |-> x_min, x_max |-> x_max,
     target_points |-> target_points, filter_ok |-> filter_ok]

\* a signal that is not a straight line, and the arguments of a get_y_at_x call on it
YCurve(x_data) == [i \in 1..Len(x_data) |-> x_data[i] * x_data[i]]
YAtXArgs(x_value, x_data, y_data) ==
    [op |-> "y_at_x_args", x_value |-> x_value, x |-> x_data, y |-> y_data]

\* a call of SignalProcessor.get_y_at_x
get_y_at_x ==
    /\ call.op = "y_at_x_args"
    /\ call' = [call EXCEPT !.op = "get_y_at_x"]
    /\ result' = GetYAtX(call.x_value, call.x, call.y)
    /\ UNCHANGED <<cacheVars, plotVars, tableVars, viewVars, fileVars>>

\* a call of SignalProcessor.decimate_data
decimate_data ==
    /\ call.op = "decimate_args"
    /\ call' = [call EXCEPT !.op = "decimate_data"]
    /\ result' = DecimateData(call.x, call.y, call.target_points, call.filter_ok)
    /\ UNCHANGED <<cacheVars, plotVars, tableVars, viewVars, fileVars>>

\* decimate_data called again on what it returned, with the same target
decimate_again(filter_ok) ==
    /\ call.op = "decimate_data"
    /\ ~result.raised
    /\ call' = [call EXCEPT !.op = "decimate_again", !.x = result.x, !.y = result.y,
                            !.filter_ok = filter_ok]
    /\ result' = DecimateData(result.x, result.y, call.target_points, filter_ok)
    /\ UNCHANGED <<cacheVars, plotVars, tableVars, viewVars, fileVars>>

\* a call of SignalProcessor.get_visible_data
get_visible_data ==
    /\ call.op = "visible_args"
    /\ call' = [call EXCEPT !.op = "get_visible_data"]
    /\ result' = GetVisibleData(call.x, call.y, call.x_min, call.x_max, call.target_points,
                                call.filter_ok)
    /\ UNCHANGED <<cacheVars, plotVars, tableVars, viewVars, fileVars>>

SPDecimateAgain == \E filter_ok \in BOOLEAN : decimate_again(filter_ok)

(* ------------------------------------------------ SignalProcessor properties *)
Decimated == call.op \in {"decimate_data", "decimate_again"}
Visible == call.op = "get_visible_data"
Factor == Max(1, Len(call.x) \div call.target_points)

\* C13: decimate_data returns x and y unchanged whenever len(x) <= target_points; hence
\* applied again, with the same target, to a result of that size it changes nothing.
C13_SmallInputUnchanged ==
    (Decimated /\ Len(call.x) <= call.target_points) => result = Returned(call.x, call.y)

\* C13 witness: decimate_data was applied to its own result, of exactly target_points
\* samples, and returned it.
C13_Witness ==
    /\ call.op = "decimate_again" /\ Len(call.x) = call.target_points
    /\ Len(call.x) >= 2 /\ result = Returned(call.x, call.y)

\* C14: for every input length L and target n with L > n >= 1, the x sequence returned by
\* decimate_data has at most n + 1 elements.
C14_AtMostTargetPlusOne ==
    (call.op = "decimate_data" /\ Len(call.x) > call.target_points)
        => Len(result.x) <= call.target_points + 1

\* C15: for inputs with len(x) = len(y), decimate_data returns two sequences of equal
\* length on every path; the filtered path does so whatever the input lengths, because it
\* truncates both to the shorter one.
C15_EqualLengths ==
    Decimated =>
        /\ Len(call.x) = Len(call.y) => Len(result.x) = Len(result.y)
        /\ (call.filter_ok /\ Len(call.x) > call.target_points)
              => Len(result.x) = Len(result.y)

\* C15 witness: the fallback path has strided two sequences of equal length by a factor
\* of at least 2.
C15_Witness ==
    /\ call.op = "decimate_data" /\ ~call.filter_ok /\ Len(call.x) = Len(call.y)
    /\ Factor >= 2 /\ Len(result.x) = Len(result.y) /\ Len(result.x) >= 2

\* C16: when the filtering step fails, decimate_data does not raise: it returns
\* x[::factor] and y[::factor].
C16_FilterFailureFallsBack ==
    (Decimated /\ ~call.filter_ok /\ Len(call.x) > call.target_points)
        => /\ ~result.raised
           /\ result.x = Stride(call.x, Factor)
           /\ result.y = Stride(call.y, Factor)

\* C16 witness: the filter failed on an input longer than twice the target and the call
\* returned every factor-th sample.
C16_Witness ==
    /\ call.op = "decimate_data" /\ ~call.filter_ok /\ Factor >= 2
    /\ ~result.raised /\ Len(result.x) < Len(call.x) /\ result.x # << >>

\* the view range lies entirely outside the x domain of the signal
OutsideDomain ==
    /\ call.x_min <= call.x_max
    /\ \/ call.x = << >>
       \/ call.x_max < call.x[1]
       \/ call.x_min > call.x[Len(call.x)]

\* C17: get_visible_data returns two empty sequences whenever the start index it computes
\* is not below the end index, in particular for every view range that lies entirely
\* outside the signal's x domain.
C17_EmptyOutsideDomain ==
    Visible =>
        /\ FindNearestIndex(call.x, call.x_min) >= FindNearestIndex(call.x, call.x_max)
              => result = Returned(<< >>, << >>)
        /\ OutsideDomain => result = Returned(<< >>, << >>)

\* C17 witness: a view range above the domain of a signal of several samples gave two
\* empty sequences.
C17_Witness ==
    /\ Visible /\ Len(call.x) >= 2
    /\ call.x_min > call.x[Len(call.x)] /\ call.x_min < call.x_max
    /\ result = Returned(<< >>, << >>)

InRange(v) == call.x_min <= v /\ v <= call.x_max
\* C18: for strictly increasing x and a view range whose samples do not exceed
\* target_points, get_visible_data returns exactly the samples with x_min <= x <= x_max,
\* in order and unchanged.
C18_ExactlySamplesInRange ==
    (Visible /\ call.x_min <= call.x_max
       /\ Len(SelectSeq(call.x, InRange)) <= call.target_points)
        => /\ result.x = SelectSeq(call.x, InRange)
           /\ result.y = SelectSeq(call.y, LAMBDA v : InRange(v - 100))

\* C22: for strictly increasing x, get_y_at_x(v, x, y) returns None when x is empty or v lies
\* outside [x[0], x[-1]], and otherwise the linear interpolation between the two samples
\* x[k] <= v <= x[k+1] that bracket v (the value on the segment of that bracket).
YAtX == call.op = "get_y_at_x"
OnSegment(r, k) ==
    r.num * (call.x[k + 1] - call.x[k])
        = r.den * (call.y[k] * (call.x[k + 1] - call.x[k])
                     + (call.y[k + 1] - call.y[k]) * (call.x_value - call.x[k]))
C22_InterpolatesInBracket ==
    YAtX => IF Len(call.x) = 0 THEN result = YNone
            ELSE IF call.x_value < call.x[1] \/ call.x_value > Last(call.x)
                 THEN result = YNone
            ELSE /\ ~result.none
                 /\ \A k \in 1..Len(call.x) :
                        call.x[k] = call.x_value => result.num = result.den * call.y[k]
                 /\ \A k \in 1..(Len(call.x) - 1) :
                        (call.x[k] <= call.x_value /\ call.x_value <= call.x[k + 1])
                            => OnSegment(result, k)

InitPlot ==
    /\ old_workers = {}
    /\ removed = {}
    /\ workers = << >>
    /\ emitted = << >>
    /\ handled = << >>
    /\ current_plots = << >>
    /\ staleApplied = {}

InitTable ==
    /\ table_worker_id = 0
    /\ current_table_worker = 0
    /\ tworkers = << >>
    /\ temitted = << >>
    /\ thandled = << >>
    /\ table = {}
    /\ is_fully_loaded = FALSE
    /\ staleDropped = FALSE
    /\ plot_keys = {}
    /\ column_count = 0
    /\ row_count = 0
    /\ tab_index = 0
    /\ built_keys = {}
    /\ now = 0
    /\ last_scroll_update = 0
    /\ last_scroll_time = Nothing
    /\ scroll_loads = << >>
    /\ last_scroll = Nothing
    \* TableWidget.__init__ and setup_ui: not loading, the progress bar hidden
    /\ is_loading = FALSE
    /\ progress_value = 0
    /\ progress_shown = FALSE

InitView ==
    /\ cursor_enabled = FALSE
    /\ cursor_created = FALSE
    /\ cursor_shown = FALSE
    /\ cursor_active = 1
    /\ cursor_positions = <<Nothing, Nothing>>
    /\ cursor_y_values = <<YNone, YNone>>
    /\ auto_range_enabled = TRUE
    /\ last_view_range = Nothing
    /\ view_range = <<0, 10>>
    /\ current_snap_plot = None
    /\ snap_raised = FALSE

Init == InitCache /\ InitPlot /\ InitTable /\ InitView /\ InitProc

NextCache ==
    \/ DMCacheSignal
    \/ DMGetSignalData
    \/ DMCacheDecimated
    \/ DMCacheStatistics
    \/ DMRemoveSignal
    \/ DMClearCache

\* the DataManager under every sequence of its cache operations
SpecCache == Init /\ [][NextCache]_vars

(* one PlotWorker over every channel, cancelled at any point or not at all *)
InitWorker ==
    /\ InitCache /\ InitTable /\ InitView /\ InitProc
    /\ \E vlen \in 0..MaxLen, tlen \in -1..MaxLen, numeric \in BOOLEAN, tnumeric \in BOOLEAN :
          workers = << NewWorker("g/a", vlen, numeric, "time", tlen, tnumeric) >>
    /\ old_workers = {}
    /\ removed = {}
    /\ emitted = << << >> >>
    /\ handled = << 0 >>
    /\ current_plots = << >>
    /\ staleApplied = {}

NextWorker ==
    \/ WStart(1)
    \/ WOverviewCheck(1)
    \/ WOverviewEmit(1)
    \/ WOverviewProgress(1)
    \/ WLoopCheck(1)
    \/ WChunkEmit(1)
    \/ WChunkProgress(1)
    \/ WStoreCheck(1)
    \/ WStoreEmit(1)
    \/ stop(1)

SpecWorker == InitWorker /\ [][NextWorker]_vars

(* the main window: signals of the loaded file selected and deselected, several loads
   side by side *)
\* The TDMS file under test.  vlen: samples of the value channel; numeric: whether they are
\* numbers; tlen: samples of the companion time channel, -1 when the file has none.
Channel(key) ==
    CASE key = "g/empty" -> [vlen |-> 0, numeric |-> TRUE, tlen |-> -1, tnumeric |-> TRUE]
      [] key = "g/short" -> [vlen |-> INITIAL_POINTS - 1, numeric |-> TRUE,
                             tlen |-> INITIAL_POINTS - 1, tnumeric |-> TRUE]
      [] key = "g/long"  -> [vlen |-> MaxPlotLen, numeric |-> TRUE,
                             tlen |-> MaxPlotLen - 1, tnumeric |-> TRUE]
      [] key = "g/text"  -> [vlen |-> 1, numeric |-> FALSE, tlen |-> -1, tnumeric |-> TRUE]
      [] key = "g/plain" -> [vlen |-> 1, numeric |-> TRUE, tlen |-> -1, tnumeric |-> TRUE]
FileKeys == {"g/empty", "g/short", "g/long", "g/text", "g/plain"}

\* helpers.calculate_optimal_decimation(length, target=1000000)
CalculateOptimalDecimation(length) ==
    IF length <= DECIMATION_TARGET THEN 1 ELSE Max(1, length \div DECIMATION_TARGET)

\* len(a[::factor])
StridedLen(n, factor) == (n + factor - 1) \div factor

\* TDMSHandler.get_channel_data, lines 103-113, for a channel ch of the file: the time
\* channel, or np.arange(len(value_data)) when there is none, and the value channel, both
\* strided by the optimal factor
DecimatedChannel(ch) ==
    LET factor == CalculateOptimalDecimation(ch.vlen)
    IN  [vlen |-> StridedLen(ch.vlen, factor),
         numeric |-> ch.numeric,
         tkind |-> IF ch.tlen # -1 THEN "time"
                   ELSE IF factor > 1 THEN "strided_index" ELSE "index",
         tlen |-> IF ch.tlen # -1 THEN StridedLen(ch.tlen, factor)
                  ELSE StridedLen(ch.vlen, factor),
         \* np.arange holds numbers whatever the file holds
         tnumeric |-> ch.tlen = -1 \/ ch.tnumeric]

\* TDMSHandler.get_channel_data(group, channel)
GetChannelData(key) == DecimatedChannel(Channel(key))

\* MainWindow.on_signal_selected
on_signal_selected(key) ==
    LET d == GetChannelData(key)
    IN  add_plot(key, d.vlen, d.numeric, d.tkind, d.tlen, d.tnumeric)

\* MainWindow.on_signal_deselected
on_signal_deselected(key) == remove_plot(key)

GAddPlot == Len(workers) < MaxWorkers /\ \E key \in FileKeys : on_signal_selected(key)
GRemovePlot == \E key \in FileKeys : on_signal_deselected(key)
GClearPlots == clear_plots
GStop == \E w \in 1..Len(workers) : stop(w)
GWorkerStep == \E w \in 1..Len(workers) : WorkerStep(w)
GChunkReady == \E w \in 1..Len(workers) : on_plot_chunk_ready(w)
GDataStored == \E w \in 1..Len(workers) : on_data_stored(w)
GProgress == \E w \in 1..Len(workers) : on_plot_progress(w)
GError == \E w \in 1..Len(workers) : on_plot_error(w)

NextPlot ==
    \/ GAddPlot
    \/ GRemovePlot
    \/ GClearPlots
    \/ GStop
    \/ GWorkerStep
    \/ GChunkReady
    \/ GDataStored
    \/ GProgress
    \/ GError

SpecPlot == Init /\ [][NextPlot]_vars

\* the thread pool runs every started worker and the GUI event loop handles every
\* queued event
PlotFairness ==
    /\ \A w \in 1..MaxWorkers : WF_vars(Started(w) /\ WorkerStep(w))
    /\ WF_vars(GChunkReady \/ GDataStored \/ GProgress \/ GError)

SpecPlotFair == SpecPlot /\ PlotFairness

(* one signal of any file selected in the main window and loaded, cancelled or not *)
\* MainWindow.on_signal_selected for a channel ch of the loaded file
SelectChannel(key, ch) ==
    LET d == DecimatedChannel(ch)
    IN  add_plot(key, d.vlen, d.numeric, d.tkind, d.tlen, d.tnumeric)

LSelect ==
    \E vlen \in 0..MaxLen, tlen \in -1..MaxLen, numeric \in BOOLEAN, tnumeric \in BOOLEAN :
        /\ workers = << >>
        /\ SelectChannel("g/a", [vlen |-> vlen, numeric |-> numeric,
                                 tlen |-> tlen, tnumeric |-> tnumeric])

NextLoad ==
    \/ LSelect
    \/ GWorkerStep
    \/ GStop
    \/ GChunkReady
    \/ GDataStored
    \/ GProgress
    \/ GError

SpecLoad == Init /\ [][NextLoad]_vars

(* ------------------------------------------------------ time channel properties *)
\* the load of worker w got no usable time channel: the file has none (get_channel_data
\* synthesized the index) or the one supplied is not numeric
NoTimeChannel(w) == workers[w].tkind # "time" \/ ~workers[w].tnumeric
Converted(w) == workers[w].numeric /\ workers[w].pc # "start"

\* C11 (as claimed): without a usable time channel the load does not fail, x is the index
\* sequence 0, 1, ..., len(y)-1 and the load proceeds to its chunks and data_stored.
C11_IndexSequence ==
    \A w \in 1..Len(workers) :
        (NoTimeChannel(w) /\ Converted(w))
           => /\ workers[w].x_data = Arr(w, "index", workers[w].y_data.len)
              /\ ~HasSig(w, "error")
              /\ (RanToEnd(w) => HasSig(w, "data_stored"))

\* C11 (amended): without a usable time channel the load does not fail, x is an index
\* sequence of the same length as y -- 0, 1, ..., len(y)-1, or the indices 0, f, 2f, ...
\* of the samples kept when get_channel_data strided a channel without time channel by
\* f > 1 -- and the load proceeds to its chunks and data_stored.
C11_IndexSequenceOfKeptSamples ==
    \A w \in 1..Len(workers) :
        (NoTimeChannel(w) /\ Converted(w))
           => /\ workers[w].x_data.len = workers[w].y_data.len
              /\ workers[w].x_data.kind =
                    (IF workers[w].tkind = "strided_index" THEN "strided_index" ELSE "index")
              /\ ~HasSig(w, "error")
              /\ (RanToEnd(w) => HasSig(w, "data_stored"))

\* C11 witness: a load whose time channel is not numeric ran to data_stored on the index.
C11_Witness ==
    \E w \in 1..Len(workers) :
        /\ workers[w].tkind = "time" /\ ~workers[w].tnumeric
        /\ workers[w].tlen # workers[w].vlen
        /\ RanToEnd(w) /\ HasSig(w, "data_stored") /\ RawChunks(w) # << >>

(* the viewer's table under rebuilds racing with the workers of earlier rebuilds *)
TUpdateTable == \E has_data \in BOOLEAN, max_rows \in 0..MaxRows :
    /\ has_data \/ max_rows = 0
    /\ update_table(PlotKeys(current_plots), IF has_data THEN <<max_rows>> ELSE << >>, max_rows)
TWorkerStep == \E t \in 1..Len(tworkers) :
    TLoopCheck(t) \/ TChunkEmit(t) \/ TFinishCheck(t) \/ TFinishEmit(t)
TChunkReady == \E t \in 1..Len(tworkers) : on_incremental_chunk_ready(t)
TFinished == \E t \in 1..Len(tworkers) : on_table_load_finished(t)

NextTable ==
    \/ TUpdateTable
    \/ TWorkerStep
    \/ TChunkReady
    \/ TFinished

SpecTable == Init /\ [][NextTable]_vars

(* the SignalProcessor over every signal on the grid *)
InitSignal ==
    /\ InitCache /\ InitPlot /\ InitTable /\ InitView
    /\ result = Returned(<< >>, << >>)
    /\ \/ \E x_data \in XSeqs, d \in {-1, 0, 1}, target_points \in 1..MaxTarget,
             filter_ok \in BOOLEAN :
              /\ Len(x_data) + d >= 0
              /\ call = DecimateArgs(x_data, YOf(x_data, Len(x_data) + d), target_points,
                                     filter_ok)
       \/ \E x_data \in XSeqs, x_min \in -1..(2 * MaxX + 1), x_max \in -1..(2 * MaxX + 1),
             target_points \in 1..MaxTarget, filter_ok \in BOOLEAN :
              call = VisibleArgs(x_data, YOf(x_data, Len(x_data)), x_min, x_max,
                                 target_points, filter_ok)
       \/ \E x_data \in XSeqs, x_value \in -1..(2 * MaxX + 1) :
              call = YAtXArgs(x_value, x_data, YCurve(x_data))

NextSignal ==
    \/ decimate_data
    \/ SPDecimateAgain
    \/ get_visible_data
    \/ get_y_at_x

SpecSignal == InitSignal /\ [][NextSignal]_vars

(* ------------------------------------------------- GraphWidget view and cursors *)
\* the samples of the file: the time channel holds 0, 4, 8, ... and the value channel
\* 0, 4, 16, ... (not a straight line); np.arange(n) holds 0, 1, 2, ...
TimeSample(i) == 4 * i
ValueSample(i) == 4 * i * i
XSample(w, i) == IF workers[w].x_data.kind = "index" THEN i ELSE TimeSample(i)
FullX(w) == [i \in 1..workers[w].x_data.len |-> XSample(w, i - 1)]
FullY(w) == [i \in 1..workers[w].y_data.len |-> ValueSample(i - 1)]

\* get_visible_data, line 48: target_points = 2000
VISIBLE_TARGET == 2000

\* plot.getData(): the x and y arrays last given to the plot item by setData.  The y values
\* of an overview are the strided samples (the fallback of decimate_data).
PlotArrays(data) ==
    CASE data.kind = "raw" ->
            Returned(Slice(FullX(data.w), data.lo, data.hi), Slice(FullY(data.w), data.lo, data.hi))
      [] data.kind = "overview" ->
            DecimateData(FullX(data.w), FullY(data.w), INITIAL_POINTS, FALSE)
      [] data.kind = "visible" ->
            GetVisibleData(FullX(data.w), FullY(data.w), data.lo, data.hi, VISIBLE_TARGET, FALSE)

\* update_cursor_values, line 288: get_y_at_x on the data of the first plot
FirstPlotYAt(plots, x_pos) ==
    LET first_plot == PlotArrays(plots[1].data)
    IN  GetYAtX(x_pos, first_plot.x, first_plot.y)

\* update_cursor_values: the new cursor_y_values; a y value that is None is not stored
UpdateCursorValues(enabled, plots, positions, y_values) ==
    IF ~enabled \/ plots = << >>
    THEN y_values
    ELSE [i \in 1..2 |->
            IF ~positions[i].some THEN y_values[i]
            ELSE LET y_val == FirstPlotYAt(plots, positions[i].v)
                 IN  IF y_val.none THEN y_values[i] ELSE y_val]

\* _show_cursors, lines 247-248: the cursors go to 40 % and 60 % of the view range
ShowPositions(range) ==
    << Some(range[1] + ((range[2] - range[1]) * 4) \div 10),
       Some(range[1] + ((range[2] - range[1]) * 6) \div 10) >>

\* GraphWidget.toggle_cursor with _create_cursors, _show_cursors and _hide_cursors
toggle_cursor(enabled) ==
    /\ cursor_enabled' = enabled
    /\ IF enabled
       THEN /\ cursor_created' = TRUE
            /\ IF current_plots = << >>
               THEN UNCHANGED <<cursor_positions, cursor_y_values, cursor_shown>>
               ELSE /\ cursor_positions' = ShowPositions(view_range)
                    /\ cursor_y_values' = UpdateCursorValues(TRUE, current_plots,
                                                ShowPositions(view_range), cursor_y_values)
                    /\ cursor_shown' = TRUE
       ELSE /\ cursor_shown' = FALSE
            /\ UNCHANGED <<cursor_created, cursor_positions, cursor_y_values>>
    /\ UNCHANGED <<cursor_active, snapVars, auto_range_enabled, last_view_range, view_range,
                   cacheVars, plotVars, tableVars, procVars, fileVars>>

\* GraphWidget.on_cursor_dragged: the user drags a cursor line that is in the plot
on_cursor_dragged(cursor_num, x_pos) ==
    /\ cursor_shown
    /\ LET positions == [cursor_positions EXCEPT ![cursor_num] = Some(x_pos)]
       IN  /\ cursor_positions' = positions
           /\ cursor_y_values' = UpdateCursorValues(cursor_enabled, current_plots, positions,
                                                     cursor_y_values)
    /\ UNCHANGED <<cursor_enabled, cursor_created, cursor_shown, cursor_active, snapVars,
                   auto_range_enabled, last_view_range, view_range,
                   cacheVars, plotVars, tableVars, procVars, fileVars>>

\* on_snap_changed, lines 1226-1229: with cursors enabled it calls update_cursor_position,
\* a method no class of the program defines, and ends in an AttributeError
SnapUpdateRaises(enabled, created) == enabled /\ created

\* TDMSViewer.on_snap_changed: the snap selector shows another plot
on_snap_changed(signal_key) ==
    /\ signal_key \in PlotKeys(current_plots)
    /\ signal_key # current_snap_plot
    /\ current_snap_plot' = signal_key
    /\ snap_raised' = SnapUpdateRaises(cursor_enabled, cursor_created)
    /\ UNCHANGED <<cursorVars, auto_range_enabled, last_view_range, view_range,
                   cacheVars, plotVars, tableVars, procVars, fileVars>>

\* the plot data get_visible_data gives for a cache entry and an x range
VisibleData(entry, x_range) ==
    [w |-> entry.x_data.src, kind |-> "visible", lo |-> x_range[1], hi |-> x_range[2],
     step |-> 1]

\* on_range_changed, lines 186-192: re-slice every plot that has cached data
Resliced(cp, c, x_range) ==
    [i \in 1..Len(cp) |->
        IF GetSignalData(c, cp[i].key) # NoData
        THEN [cp[i] EXCEPT !.data = VisibleData(c[IndexOf(c, cp[i].key)], x_range)]
        ELSE cp[i]]

\* on_range_changed, line 182: if not self.auto_range_enabled
RangeHandlingOn(auto_range) == ~auto_range

\* the view box shows a new x range (pan or zoom) and GraphWidget.on_range_changed runs
on_range_changed(x_range) ==
    /\ x_range # view_range
    /\ view_range' = x_range
    /\ IF RangeHandlingOn(auto_range_enabled)
       THEN /\ current_plots' = Resliced(current_plots, signal_cache, x_range)
            /\ cursor_y_values' = UpdateCursorValues(cursor_enabled, current_plots',
                                                     cursor_positions, cursor_y_values)
            /\ last_view_range' = Some(x_range)
       ELSE UNCHANGED <<current_plots, cursor_y_values, last_view_range>>
    /\ UNCHANGED <<cursor_enabled, cursor_created, cursor_shown, cursor_active, snapVars,
                   cursor_positions, auto_range_enabled, workers, emitted, handled,
                   staleApplied, cacheVars, tableVars, procVars, fileVars>>

(* ------------------------------------------------ view and cursor properties *)
\* C19: whenever the visible x range changes, every plotted signal that has an entry in the
\* signal cache is re-sliced to the new range and its plot data replaced by the result.
C19_RangeChangeReslices ==
    [][view_range' # view_range
          => \A i \in 1..Len(current_plots) :
                current_plots[i].key \in CacheKeys(signal_cache)
                   => /\ i <= Len(current_plots')
                      /\ current_plots'[i].data =
                            VisibleData(signal_cache[IndexOf(signal_cache, current_plots[i].key)],
                                        view_range')]_vars

\* C20: whenever cursors are disabled, cursor_positions and cursor_y_values are both
\* [None, None].
C20_DisabledCursorsCleared ==
    ~cursor_enabled => /\ cursor_positions = <<Nothing, Nothing>>
                       /\ cursor_y_values = <<YNone, YNone>>

\* C21: after toggle_cursor(True), from any state (with or without plotted signals),
\* cursor_positions is the 40 % and 60 % points of the current visible x range.
C21_EnableInitializesCursors ==
    [][~cursor_enabled /\ cursor_enabled' => cursor_positions' = ShowPositions(view_range')]_vars

\* C23: after cursor i is dragged to a new x while cursors are enabled, cursor_y_values[i]
\* equals get_y_at_x of the snap signal (the first plot) at cursor_positions[i], None
\* included: no y value of the previous position survives the drag.
C23_DragRecomputesY ==
    [][\A i \in {1, 2} :
          (/\ cursor_enabled /\ cursor_enabled'
           /\ cursor_positions'[i] # cursor_positions[i]
           /\ cursor_positions'[i].some
           /\ current_plots' # << >>)
              => cursor_y_values'[i] = FirstPlotYAt(current_plots', cursor_positions'[i].v)]_vars

\* C24: changing the snap target while cursors are enabled recomputes both cursor y values
\* from the new target at the current cursor positions and leaves both positions unchanged.
SnapYAt(plots, key, x_pos) ==
    LET snap_plot == PlotArrays(plots[PlotIndex(plots, key)].data)
    IN  GetYAtX(x_pos, snap_plot.x, snap_plot.y)
C24_SnapChangeRecomputes ==
    [][(current_snap_plot' # current_snap_plot /\ cursor_enabled)
          => /\ cursor_positions' = cursor_positions
             /\ \A i \in {1, 2} :
                    cursor_positions[i].some
                       => cursor_y_values'[i]
                             = SnapYAt(current_plots', current_snap_plot', cursor_positions[i].v)]_vars

\* no load is in progress: every worker has ended and its events have been handled
Idle == \A w \in 1..Len(workers) : workers[w].pc = "done" /\ handled[w] = Len(emitted[w])

(* ------------------------------------------------------------ the table tab *)
\* update_table, line 736: list(self.current_plots.keys())[:2]
FirstTwo(cp) == SubSeq(cp, 1, Min(2, Len(cp)))

\* update_table, lines 742-768: a data pair for each of these keys that has a time channel
\* in the file; the pair holds the whole time channel
RECURSIVE PairRows(_)
PairRows(cp) ==
    IF cp = << >> THEN << >>
    ELSE (IF Channel(Head(cp).key).tlen = -1 THEN << >> ELSE <<Channel(Head(cp).key).tlen>>)
            \o PairRows(Tail(cp))

\* setup_table_structure, lines 1241-1246: the longest cached x_data of the plotted signals
RECURSIVE CachedRows(_, _)
CachedRows(cp, c) ==
    IF cp = << >> THEN 0
    ELSE Max(IF Head(cp).key \in CacheKeys(c) THEN c[IndexOf(c, Head(cp).key)].x_data.len ELSE 0,
             CachedRows(Tail(cp), c))

\* on_tab_changed, lines 1102-1104
NeedsRebuild(current_keys, keys, rows, columns) ==
    current_keys # keys \/ rows = 0 \/ columns = 0

\* TDMSViewer.on_tab_changed(index): the user shows another tab
on_tab_changed(index) ==
    /\ index # tab_index
    /\ tab_index' = index
    /\ IF index = 1 /\ NeedsRebuild(PlotKeys(current_plots), plot_keys, row_count, column_count)
       THEN UpdateTable(PlotKeys(FirstTwo(current_plots)), PairRows(FirstTwo(current_plots)),
                        CachedRows(current_plots, signal_cache))
       ELSE UNCHANGED <<table_worker_id, current_table_worker, tworkers, temitted, thandled,
                        table, plot_keys, column_count, row_count, built_keys>>
    /\ UNCHANGED <<is_fully_loaded, staleDropped, scrollVars, cacheVars, plotVars, viewVars,
                   procVars, fileVars, widgetVars>>

(* signals plotted and removed, the table tab shown and left *)
TabSelect == Idle /\ Len(workers) < MaxWorkers /\ \E key \in {"g/short", "g/plain"} : on_signal_selected(key)
VTabChanged == \E index \in {0, 1} : on_tab_changed(index)

NextTab ==
    \/ TabSelect
    \/ GWorkerStep
    \/ GChunkReady
    \/ GDataStored
    \/ GProgress
    \/ GRemovePlot
    \/ VTabChanged
    \/ TWorkerStep
    \/ TChunkReady
    \/ TFinished

SpecTab == Init /\ [][NextTab]_vars

\* C27: after every table rebuild, table_cache.plot_keys equals the set of signal keys
\* currently plotted; switching to the table tab triggers a rebuild exactly when plot_keys
\* differs from that set (or the table is empty); with an unchanged signal set a second
\* switch to the tab does not rebuild.
Rebuilt == table_worker_id' # table_worker_id
SwitchToTable == tab_index # 1 /\ tab_index' = 1
C27_PlotKeysTrackPlots ==
    [][/\ Rebuilt => plot_keys' = PlotKeys(current_plots')
       /\ SwitchToTable
             => (Rebuilt <=> NeedsRebuild(PlotKeys(current_plots), plot_keys, row_count,
                                          column_count))
       /\ (SwitchToTable /\ table_worker_id > 0 /\ built_keys = PlotKeys(current_plots)
              /\ row_count # 0 /\ column_count # 0)
             => ~Rebuilt]_vars

(* ------------------------------------------------------------ table scrolling *)
\* on_table_scrolled, line 829: 100 ms in the program
RATE_LIMIT_MS == 3
\* QTime.msecsSinceStartOfDay() starts again at 0 after 86400000 ms
DAY_MS == 8
MaxTime == 12

\* QTime.currentTime().msecsSinceStartOfDay()
MsecsSinceStartOfDay(t) == t % DAY_MS

\* mutant: no scroll event is held back
RateLimited_Never(current_time, last_update) == FALSE

\* on_table_scrolled, line 829: if current_time - self.last_scroll_update < 100: return
RateLimited(current_time, last_update) == current_time - last_update < RATE_LIMIT_MS

\* load_cached_data_chunk(start_row, 0) with chunk_size = 1000, for a table of fewer rows
\* than one chunk: the rows from start_row on for which a plotted signal has cached data
\* are written from the cache (worker id 0)
LoadCachedDataChunk(tb, start_row, max_rows, cp, c) ==
    IF start_row >= max_rows THEN tb
    ELSE tb \cup {<<row, 0>> : row \in {r \in start_row..(max_rows - 1) : r < CachedRows(cp, c)}}

\* time passes
Tick ==
    /\ now < MaxTime
    /\ now' = now + 1
    /\ UNCHANGED <<last_scroll_update, last_scroll_time, scroll_loads, last_scroll,
                   table_worker_id, current_table_worker, tworkers, temitted, thandled, table,
                   is_fully_loaded, staleDropped, tabVars, cacheVars, plotVars, viewVars,
                   procVars, fileVars, widgetVars>>

\* TDMSViewer.on_table_scrolled: the vertical scroll bar of the table has moved
on_table_scrolled ==
    /\ last_scroll' = Some(now)
    /\ LET current_time == MsecsSinceStartOfDay(now)
       IN  IF RateLimited(current_time, last_scroll_update)
           THEN UNCHANGED <<last_scroll_update, scroll_loads, table>>
           ELSE /\ last_scroll_update' = current_time
                /\ scroll_loads' = Append(scroll_loads, now)
                \* start_row = max(0, first_visible_row - 500) is 0 in a table this small
                /\ table' = LoadCachedDataChunk(table, 0, row_count, current_plots,
                                                signal_cache)
    /\ UNCHANGED <<now, last_scroll_time, table_worker_id, current_table_worker, tworkers,
                   temitted, thandled, is_fully_loaded, staleDropped, tabVars, cacheVars,
                   plotVars, viewVars, procVars, fileVars, widgetVars>>

\* TableWidget.on_scroll: QTimer has no currentTime, so line 217 raises AttributeError
\* after the attribute has been set, and no load is started
on_scroll ==
    /\ last_scroll' = Some(now)
    /\ last_scroll_time' = IF last_scroll_time.some THEN last_scroll_time ELSE Some(0)
    /\ UNCHANGED <<now, last_scroll_update, scroll_loads, table_worker_id,
                   current_table_worker, tworkers, temitted, thandled, table,
                   is_fully_loaded, staleDropped, tabVars, cacheVars, plotVars, viewVars,
                   procVars, fileVars, widgetVars>>

NextScroll ==
    \/ Tick
    \/ on_table_scrolled
    \/ on_scroll

SpecScroll == Init /\ [][NextScroll]_vars

\* C28: any two loads kicked off by table scroll events are at least 100 ms apart: a
\* scroll event arriving less than 100 ms after the last accepted one starts no load.
C28_ScrollLoadsApart ==
    \A i \in 1..(Len(scroll_loads) - 1) :
        scroll_loads[i + 1] - scroll_loads[i] >= RATE_LIMIT_MS
\* two loads have been started and a later scroll event was held back
C28_Witness ==
    /\ Len(scroll_loads) >= 2
    /\ last_scroll.some
    /\ last_scroll.v > Last(scroll_loads)
    /\ last_scroll.v - Last(scroll_loads) < RATE_LIMIT_MS

(* ---------------------------------------------------------------- file loads *)
FSelect == Len(workers) < MaxWorkers /\ \E key \in {"g/short", "g/plain"} : on_signal_selected(key)

NextFile ==
    \/ FSelect
    \/ GWorkerStep
    \/ GChunkReady
    \/ GDataStored
    \/ GProgress
    \/ on_file_loaded

SpecFile == Init /\ [][NextFile]_vars

\* C29: after a new file has been loaded, the signal cache holds no entry that was created
\* from the previous file.
C29_NoEntryOfOldFile ==
    \A i \in 1..Len(signal_cache) : signal_cache[i].x_data.src \notin old_workers

(* ------------------------------------------------- eviction of plotted keys *)
\* one signal after another is selected, each once the load before it has finished
ESelect == Idle /\ \E key \in FileKeys : on_signal_selected(key)

NextEvict ==
    \/ ESelect
    \/ GWorkerStep
    \/ GChunkReady
    \/ GDataStored
    \/ GProgress

SpecEvict == Init /\ [][NextEvict]_vars

\* on_data_stored has been handled for a load of this key
WasStored(key) ==
    \E w \in 1..Len(workers) :
        /\ workers[w].signal_key = key
        /\ \E i \in 1..handled[w] : emitted[w][i].sig = "data_stored"

\* C30: eviction in cache_signal does not depend on whether the victim is plotted: when
\* on_data_stored caches another signal into a full cache whose oldest entry belongs to a
\* plotted key, that entry is removed and the key stays in current_plots.
C30_EvictionIgnoresPlots ==
    [][\A w \in 1..Len(workers) :
          (/\ Queued(w, "data_stored")
           /\ handled'[w] = handled[w] + 1
           /\ CacheIsFull(signal_cache)
           /\ workers[w].signal_key \notin CacheKeys(signal_cache)
           /\ Head(signal_cache).key \in PlotKeys(current_plots))
          => /\ Head(signal_cache).key \notin CacheKeys(signal_cache')
             /\ Head(signal_cache).key \in PlotKeys(current_plots')
             /\ workers[w].signal_key \in CacheKeys(signal_cache')]_vars

\* C30 witness: a key that is plotted and whose signal was cached has no cache entry any
\* more, the cache being full of signals loaded after it.
C30_Witness ==
    \E key \in PlotKeys(current_plots) :
        /\ WasStored(key)
        /\ key \notin CacheKeys(signal_cache)
        /\ Len(signal_cache) = max_cache_size
        /\ \A i \in 1..Len(signal_cache) : signal_cache[i].key \in PlotKeys(current_plots)

(* ------------------------------------------------------ cursor information *)
\* the two delta labels: Some(d) for a number shown, Nothing for "-"
Labels(delta_x, delta_y, raised) == [delta_x |-> delta_x, delta_y |-> delta_y, raised |-> raised]

\* ToolbarWidget.update_cursor_info(x1, y1, x2, y2)
ToolbarCursorInfo(x1, y1, x2, y2) ==
    IF ~x1.some \/ ~y1.some \/ ~x2.some \/ ~y2.some
    THEN Labels(Nothing, Nothing, FALSE)
    ELSE Labels(Some(Abs(x2.v - x1.v)), Some(Abs(y2.v - y1.v)), FALSE)

\* TDMSViewer.update_cursor_info: only cursor_positions is tested for None; with a y value
\* that is None format_si_prefix(y1) or (y2) raises TypeError at line 1066, before the delta
\* labels are written, so they keep the text shown
ViewerCursorInfo(shown, positions, y_values) ==
    IF ~positions[1].some \/ ~positions[2].some
    THEN Labels(Nothing, Nothing, FALSE)
    ELSE IF ~y_values[1].some \/ ~y_values[2].some
    THEN Labels(shown.delta_x, shown.delta_y, TRUE)
    ELSE Labels(Some(Abs(positions[2].v - positions[1].v)),
                Some(Abs(y_values[2].v - y_values[1].v)), FALSE)

\* the arguments of an update_cursor_info call about to be made
CursorInfoArgs(x1, y1, x2, y2) ==
    [op |-> "cursor_info_args", x1 |-> x1, y1 |-> y1, x2 |-> x2, y2 |-> y2]

\* a call of ToolbarWidget.update_cursor_info
toolbar_update_cursor_info ==
    /\ call.op = "cursor_info_args"
    /\ call' = [call EXCEPT !.op = "toolbar_update_cursor_info"]
    /\ result' = ToolbarCursorInfo(call.x1, call.y1, call.x2, call.y2)
    /\ UNCHANGED <<cacheVars, plotVars, tableVars, viewVars, fileVars>>

\* a call of TDMSViewer.update_cursor_info
viewer_update_cursor_info ==
    /\ call.op = "cursor_info_args"
    /\ call' = [call EXCEPT !.op = "viewer_update_cursor_info"]
    /\ result' = ViewerCursorInfo(result, <<call.x1, call.x2>>, <<call.y1, call.y2>>)
    /\ UNCHANGED <<cacheVars, plotVars, tableVars, viewVars, fileVars>>

\* the cursor values the labels are computed from, and the labels shown before the call
MaxCursorValue == 2
CursorValues == {Nothing} \cup {Some(v) : v \in 0..MaxCursorValue}
InitCursorInfo ==
    /\ InitCache /\ InitPlot /\ InitTable /\ InitView
    /\ \E x1 \in CursorValues, y1 \in CursorValues, x2 \in CursorValues, y2 \in CursorValues :
           call = CursorInfoArgs(x1, y1, x2, y2)
    /\ \E shown \in {Nothing, Some(1)} : result = Labels(shown, shown, FALSE)

NextCursorInfo ==
    \/ toolbar_update_cursor_info
    \/ viewer_update_cursor_info

SpecCursorInfo == InitCursorInfo /\ [][NextCursorInfo]_vars

\* C25: the cursor deltas shown are |x2 - x1| and |y2 - y1| when both cursors have an x and
\* a y value, and both deltas are shown as unset whenever any of x1, y1, x2, y2 is None.
InfoShown == call.op \in {"toolbar_update_cursor_info", "viewer_update_cursor_info"}
C25_DeltasShown ==
    InfoShown =>
        IF call.x1.some /\ call.y1.some /\ call.x2.some /\ call.y2.some
        THEN /\ result.delta_x = Some(Abs(call.x2.v - call.x1.v))
             /\ result.delta_y = Some(Abs(call.y2.v - call.y1.v))
        ELSE /\ result.delta_x = Nothing
             /\ result.delta_y = Nothing

(* --------------------------------------------------- TableWorker.process_chunk *)
\* TableWorker.__init__: chunk_size (1000 in the program)
CHUNK_ROWS == 2

\* a table cell: the text f"{value:.6f}" or str(value) of a sample, or the empty string
Formatted(value) == [empty |-> FALSE, text_of |-> value]
EmptyCell == [empty |-> TRUE, text_of |-> 0]

\* max(len(x) for x, _ in chunks)
RECURSIVE MaxXLen(_)
MaxXLen(chunks) ==
    IF chunks = << >> THEN 0 ELSE Max(Len(Head(chunks).x), MaxXLen(Tail(chunks)))

\* process_chunk, lines 94-113: the cells of one signal in one row; y_arr[row] is an
\* IndexError when y_arr is shorter than x_arr
RowRaises(chunks, row) ==
    \E s \in 1..Len(chunks) : row < Len(chunks[s].x) /\ row >= Len(chunks[s].y)
RECURSIVE RowData(_, _)
RowData(chunks, row) ==
    IF chunks = << >> THEN << >>
    ELSE LET x_arr == Head(chunks).x
             y_arr == Head(chunks).y
         IN  (IF row < Len(x_arr)
              THEN <<Formatted(x_arr[row + 1]), Formatted(y_arr[row + 1])>>
              ELSE <<EmptyCell, EmptyCell>>) \o RowData(Tail(chunks), row)

\* TableWorker.process_chunk(chunks, start_row)
ProcessChunk(chunks, start_row) ==
    LET end_row == Min(start_row + CHUNK_ROWS, MaxXLen(chunks))
    IN  IF \E row \in start_row..(end_row - 1) : RowRaises(chunks, row)
        THEN [rows |-> << >>, raised |-> TRUE]
        ELSE [rows |-> [r \in 1..Max(0, end_row - start_row) |->
                            RowData(chunks, start_row + r - 1)],
              raised |-> FALSE]

\* the arguments of a process_chunk call about to be made
ProcessChunkArgs(chunks, start_row) ==
    [op |-> "process_chunk_args", chunks |-> chunks, start_row |-> start_row]

\* a call of TableWorker.process_chunk
process_chunk ==
    /\ call.op = "process_chunk_args"
    /\ call' = [call EXCEPT !.op = "process_chunk"]
    /\ result' = ProcessChunk(call.chunks, call.start_row)
    /\ UNCHANGED <<cacheVars, plotVars, tableVars, viewVars, fileVars>>

\* the (x_data, y_data) pairs the table is built from: the cached arrays of one or two
\* signals; signal s holds x = 10 s + i and y = 100 s + i at sample i
MaxSignalLen == 3
SignalPair(s, xlen, ylen) ==
    [x |-> [i \in 1..xlen |-> 10 * s + i - 1], y |-> [i \in 1..ylen |-> 100 * s + i - 1]]
SignalPairs(s) ==
    {SignalPair(s, xlen, ylen) : xlen \in 0..MaxSignalLen, ylen \in 0..MaxSignalLen}
DataPairs ==
    {<<a>> : a \in SignalPairs(1)} \cup {<<a, b>> : a \in SignalPairs(1), b \in SignalPairs(2)}

InitChunk ==
    /\ InitCache /\ InitPlot /\ InitTable /\ InitView
    /\ \E chunks \in DataPairs, start_row \in {0, CHUNK_ROWS} :
           call = ProcessChunkArgs(chunks, start_row)
    /\ result = [rows |-> << >>, raised |-> FALSE]

NextChunk == process_chunk

SpecChunk == InitChunk /\ [][NextChunk]_vars

\* C26: for every row index i below the longest selected signal's length, the row produced
\* by process_chunk has two cells per signal: the formatted x and y of sample i when
\* i < len(signal), and two empty strings otherwise; a shorter signal never causes an error.
ProcessedChunk == call.op = "process_chunk"
RowsOfChunk ==
    call.start_row..(Min(call.start_row + CHUNK_ROWS, MaxXLen(call.chunks)) - 1)
RowsAsClaimed ==
    /\ ~result.raised
    /\ \A i \in RowsOfChunk :
          LET row_data == result.rows[i - call.start_row + 1]
          IN  /\ Len(row_data) = 2 * Len(call.chunks)
              /\ \A s \in 1..Len(call.chunks) :
                    IF i < Len(call.chunks[s].x)
                    THEN /\ row_data[2 * s - 1] = Formatted(call.chunks[s].x[i + 1])
                         /\ row_data[2 * s] = Formatted(call.chunks[s].y[i + 1])
                    ELSE /\ row_data[2 * s - 1] = EmptyCell
                         /\ row_data[2 * s] = EmptyCell
C26_RowsPadShorterSignals == ProcessedChunk => RowsAsClaimed

\* the rows are as claimed for signals whose x and y arrays have one length
EqualLengthPairs ==
    \A s \in 1..Len(call.chunks) : Len(call.chunks[s].x) = Len(call.chunks[s].y)
RowsPadShorterEqualLengthSignals == (ProcessedChunk /\ EqualLengthPairs) => RowsAsClaimed

(* the graph with one signal loaded, panned and zoomed, its cursors toggled and dragged *)
ViewRanges == {<<0, 10>>, <<10, 20>>}
DragPositions == {2, 5}
VSelect == workers = << >> /\ on_signal_selected("g/short")
VSnapChanged == \E key \in FileKeys : on_snap_changed(key)
VToggleCursor == \E enabled \in BOOLEAN : toggle_cursor(enabled)
VCursorDragged == \E cursor_num \in {1, 2}, x_pos \in DragPositions :
    on_cursor_dragged(cursor_num, x_pos)
VRangeChanged == \E x_range \in ViewRanges : on_range_changed(x_range)

NextView ==
    \/ VSelect
    \/ GWorkerStep
    \/ GChunkReady
    \/ GDataStored
    \/ GProgress
    \/ GRemovePlot
    \/ GClearPlots
    \/ VToggleCursor
    \/ VCursorDragged
    \/ VRangeChanged

SpecView == Init /\ [][NextView]_vars

(* two signals plotted one after the other, the cursors and the snap selector *)
SSelect == Idle /\ Len(workers) < MaxWorkers /\ \E key \in {"g/short", "g/long"} : on_signal_selected(key)

NextSnap ==
    \/ SSelect
    \/ GWorkerStep
    \/ GChunkReady
    \/ GDataStored
    \/ GProgress
    \/ VToggleCursor
    \/ VCursorDragged
    \/ VSnapChanged

SpecSnap == Init /\ [][NextSnap]_vars

(* ------------------------------------------------- the plotted series of a load *)
\* the plot item of the key worker w loads
PlottedBy(w) == current_plots[PlotIndex(current_plots, workers[w].signal_key)].data

\* every sample of the channel worker w loads, at full resolution
WholeSeries(w) ==
    [w |-> w, kind |-> "raw", lo |-> 0, hi |-> workers[w].y_data.len, step |-> 1]

\* C31: when the chunks of one plot load have been applied by on_plot_chunk_ready, the
\* plotted series of its key holds every sample the load delivered, not only the last chunk.
C31_ChunksExtendPlot ==
    \A w \in 1..Len(workers) :
        (Completed(w) /\ RanToEnd(w) /\ workers[w].y_data.len > 0)
            => /\ workers[w].signal_key \in PlotKeys(current_plots)
               /\ PlottedBy(w) = WholeSeries(w)

(* ------------------------------------------------ coverage of the raw chunks *)
\* the raw chunks of worker w that contain sample index i
RawChunksWith(w, i) ==
    {k \in 1..Len(RawChunks(w)) : RawChunks(w)[k].lo <= i /\ i < RawChunks(w)[k].hi}

\* C32: in an uncancelled run over a channel of length L the raw (non-overview) chunks
\* together contain every sample index 0..L-1 exactly once, for L <= INITIAL_POINTS and
\* for L > INITIAL_POINTS alike.
C32_RawChunksCoverChannel ==
    \A w \in 1..Len(workers) :
        RanToEnd(w) =>
            \A i \in 0..(workers[w].y_data.len - 1) : Cardinality(RawChunksWith(w, i)) = 1

\* the same for the channels that get no overview: holds
RawChunksCoverShortChannel ==
    \A w \in 1..Len(workers) :
        (RanToEnd(w) /\ workers[w].y_data.len <= INITIAL_POINTS) =>
            \A i \in 0..(workers[w].y_data.len - 1) : Cardinality(RawChunksWith(w, i)) = 1

(* ---------------------------------------------- derived data of a cache entry *)
\* this step is a cache_signal(key, x, y) call
CacheSignalStep(key, x, y) ==
    /\ signal_cache' = CacheSignal(signal_cache, key, x, y)
    /\ touched' = Touch(Restrict(touched, CacheKeys(signal_cache')), key)
    /\ lastEvict'.victims = CacheKeys(signal_cache) \ CacheKeys(signal_cache')
    /\ lastEvict'.had_derived = HasDerived(signal_cache, key)

\* C33: cache_signal(key, x, y) leaves the entry of key with decimated_data = None and
\* statistics = None, so nothing derived from the y data it replaced is kept.
C33_CacheSignalResetsDerived ==
    [][\A k \in Keys, n \in 0..MaxCacheLen :
          CacheSignalStep(k, Arr(0, "time", n), Arr(0, "value", n))
              => /\ k \in CacheKeys(signal_cache')
                 /\ ~HasDerived(signal_cache', k)]_vars

\* C33 witness: the last cache_signal call replaced an entry that held derived data, and
\* the entry of that key now holds none.
C33_Witness ==
    /\ lastEvict.had_derived
    /\ touched # << >>
    /\ Last(touched) \in CacheKeys(signal_cache)
    /\ ~HasDerived(signal_cache, Last(touched))
    /\ lastEvict.victims = {}

(* ------------------------------------------- TableWorker.run (table_worker.py) *)
\* the events of TableWorkerSignals
RunEv(sig, start_row, pct) == [sig |-> sig, start_row |-> start_row, pct |-> pct]

\* TableWorker.__init__(data_pairs), with the worker_id the widget binds in the lambdas
\* it connects; chunks stands for data_pairs without the channel names
NewRun(worker_id, chunks) ==
    [worker_id |-> worker_id, chunks |-> chunks, max_rows |-> 0, current_row |-> 0,
     should_continue |-> TRUE, pc |-> "start"]

RunFrame ==
    UNCHANGED <<table_worker_id, current_table_worker, thandled, table, is_fully_loaded,
                staleDropped, tabVars, scrollVars, widgetVars, cacheVars, plotVars, viewVars,
                procVars, fileVars>>

RunEmit(t, ev) == temitted' = [temitted EXCEPT ![t] = Append(@, ev)]

\* run(), lines 40-49: max() of no data pair is a ValueError, caught at line 73; a table
\* of no row is reported finished at once, the flag not being looked at
RunStart(t) ==
    /\ tworkers[t].pc = "start"
    /\ LET me == tworkers[t] IN
       IF me.chunks = << >>
       THEN /\ RunEmit(t, RunEv("error", 0, 0))
            /\ tworkers' = [tworkers EXCEPT ![t].pc = "done"]
       ELSE IF MaxXLen(me.chunks) = 0
       THEN /\ RunEmit(t, RunEv("finished", 0, 0))
            /\ tworkers' = [tworkers EXCEPT ![t].pc = "done"]
       ELSE /\ tworkers' = [tworkers EXCEPT ![t].max_rows = MaxXLen(me.chunks),
                                            ![t].pc = "loop_check"]
            /\ UNCHANGED temitted
    /\ RunFrame

\* run(), line 53: while current_row < max_rows and self.should_continue
RunLoopCheck(t) ==
    /\ tworkers[t].pc = "loop_check"
    /\ tworkers' = [tworkers EXCEPT ![t].pc =
            IF tworkers[t].current_row < tworkers[t].max_rows /\ tworkers[t].should_continue
            THEN "process_chunk" ELSE "finish_check"]
    /\ UNCHANGED temitted
    /\ RunFrame

\* run(), lines 55-58: process_chunk and chunk_ready.emit; an exception of process_chunk
\* is caught at line 73 and reported by error.emit, which ends the run
RunProcessChunk(t) ==
    /\ tworkers[t].pc = "process_chunk"
    /\ LET me == tworkers[t] IN
       IF ProcessChunk(me.chunks, me.current_row).raised
       THEN /\ RunEmit(t, RunEv("error", 0, 0))
            /\ tworkers' = [tworkers EXCEPT ![t].pc = "done"]
       ELSE /\ RunEmit(t, RunEv("chunk_ready", me.current_row, 0))
            /\ tworkers' = [tworkers EXCEPT ![t].pc = "progress"]
    /\ RunFrame

\* run(), lines 61-68: progress.emit, current_row += self.chunk_size, msleep
RunProgress(t) ==
    /\ tworkers[t].pc = "progress"
    /\ LET me == tworkers[t] IN
       /\ RunEmit(t, RunEv("progress", 0, (me.current_row * 100) \div me.max_rows))
       /\ tworkers' = [tworkers EXCEPT ![t].current_row = me.current_row + CHUNK_ROWS,
                                       ![t].pc = "loop_check"]
    /\ RunFrame

\* run(), lines 70-71: if self.should_continue: self.signals.finished.emit()
RunFinish(t) ==
    /\ tworkers[t].pc = "finish_check"
    /\ IF tworkers[t].should_continue
       THEN RunEmit(t, RunEv("finished", 0, 0))
       ELSE UNCHANGED temitted
    /\ tworkers' = [tworkers EXCEPT ![t].pc = "done"]
    /\ RunFrame

\* TableWorker.stop
TableWorker_stop(t) ==
    /\ tworkers[t].should_continue
    /\ tworkers' = [tworkers EXCEPT ![t].should_continue = FALSE]
    /\ UNCHANGED temitted
    /\ RunFrame

\* one TableWorker is constructed over one or two data pairs (start_table_worker, its only
\* caller, returns before that when it has no data pair) and run
RConstruct ==
    /\ tworkers = << >>
    /\ \E chunks \in DataPairs : tworkers' = <<NewRun(1, chunks)>>
    /\ temitted' = << << >> >>
    /\ thandled' = <<0>>
    /\ UNCHANGED <<table_worker_id, current_table_worker, table, is_fully_loaded,
                   staleDropped, tabVars, scrollVars, widgetVars, cacheVars, plotVars,
                   viewVars, procVars, fileVars>>
RRunStart == \E t \in 1..Len(tworkers) : RunStart(t)
RRunLoopCheck == \E t \in 1..Len(tworkers) : RunLoopCheck(t)
RRunProcessChunk == \E t \in 1..Len(tworkers) : RunProcessChunk(t)
RRunProgress == \E t \in 1..Len(tworkers) : RunProgress(t)
RRunFinish == \E t \in 1..Len(tworkers) : RunFinish(t)
RStop == \E t \in 1..Len(tworkers) : TableWorker_stop(t)

NextRun ==
    \/ RConstruct
    \/ RRunStart
    \/ RRunLoopCheck
    \/ RRunProcessChunk
    \/ RRunProgress
    \/ RRunFinish
    \/ RStop

SpecRun == Init /\ [][NextRun]_vars

RunOf(t, sig) == SelectSeq(temitted[t], LAMBDA e : e.sig = sig)
\* the number of chunks of a table of n rows
ChunksOf(n) == (n + CHUNK_ROWS - 1) \div CHUNK_ROWS
\* the places of run() at which the cancellation flag is read next before anything is emitted
AtChunkBoundary(t) == tworkers[t].pc \in {"loop_check", "finish_check", "done"}

\* the start rows are 0, chunk_size, 2 * chunk_size, ..., all below max_rows
RunChunksInOrder(t) ==
    \A i \in 1..Len(RunOf(t, "chunk_ready")) :
        /\ RunOf(t, "chunk_ready")[i].start_row = (i - 1) * CHUNK_ROWS
        /\ RunOf(t, "chunk_ready")[i].start_row < MaxXLen(tworkers[t].chunks)

\* a run that has ended without being cancelled emitted every chunk and then finished, once
RunFinishedOnce(t) ==
    (tworkers[t].pc = "done" /\ tworkers[t].should_continue) =>
        /\ Len(RunOf(t, "finished")) = 1
        /\ Last(temitted[t]).sig = "finished"
        /\ Len(RunOf(t, "chunk_ready")) = ChunksOf(MaxXLen(tworkers[t].chunks))

\* at a chunk boundary with the flag set, this step emits neither chunk_ready nor finished
RunSilentOnceCancelled(t) ==
    (AtChunkBoundary(t) /\ ~tworkers[t].should_continue) =>
        \A i \in (Len(temitted[t]) + 1)..Len(temitted'[t]) :
            temitted'[t][i].sig \notin {"chunk_ready", "finished"}

\* C34: a TableWorker emits chunk_ready with start rows 0, chunk_size, 2 * chunk_size, ...
\* in increasing order up to max_rows, emits finished exactly once after the last chunk
\* when it is not cancelled, and emits neither finished nor a further chunk after a chunk
\* boundary at which the cancellation flag is set.
C34_TableWorkerProtocol ==
    /\ [](\A t \in 1..Len(tworkers) : RunChunksInOrder(t) /\ RunFinishedOnce(t))
    /\ [][\A t \in 1..Len(tworkers) : RunSilentOnceCancelled(t)]_vars

\* x and y of every data pair have one length
WellFormedPairs(t) ==
    \A s \in 1..Len(tworkers[t].chunks) :
          Len(tworkers[t].chunks[s].x) = Len(tworkers[t].chunks[s].y)

\* the same protocol for well-formed data pairs: holds
TableWorkerProtocolWellFormed ==
    /\ [](\A t \in 1..Len(tworkers) :
             WellFormedPairs(t) => RunChunksInOrder(t) /\ RunFinishedOnce(t))
    /\ [][\A t \in 1..Len(tworkers) : RunSilentOnceCancelled(t)]_vars

(* ------------------------------------------------- re-caching a cached key *)
\* C35: cache_signal on a key that is already in the cache replaces that key's entry and
\* removes no other key, also when the cache holds max_cache_size entries.
C35_RecachingEvictsNothing ==
    [][\A k \in Keys, n \in 0..MaxCacheLen :
          (k \in CacheKeys(signal_cache)
             /\ CacheSignalStep(k, Arr(0, "time", n), Arr(0, "value", n)))
              => /\ CacheKeys(signal_cache') = CacheKeys(signal_cache)
                 /\ GetSignalData(signal_cache', k) = <<Arr(0, "time", n), Arr(0, "value", n)>>]_vars

\* the same while the cache holds fewer than max_cache_size entries: holds
RecachingEvictsNothingBelowCapacity ==
    [][\A k \in Keys, n \in 0..MaxCacheLen :
          (k \in CacheKeys(signal_cache) /\ Len(signal_cache) < max_cache_size
             /\ CacheSignalStep(k, Arr(0, "time", n), Arr(0, "value", n)))
              => /\ CacheKeys(signal_cache') = CacheKeys(signal_cache)
                 /\ GetSignalData(signal_cache', k) = <<Arr(0, "time", n), Arr(0, "value", n)>>]_vars

(* ------------------------------------------------------ removal of a plot *)
WorkersOf(key) == {w \in 1..Len(workers) : workers[w].signal_key = key}

\* remove_plot and clear_plots, with the workers started before the removal recorded
DRemovePlot ==
    \E key \in FileKeys :
        /\ RemovePlot(key)
        /\ removed' = removed \cup WorkersOf(key)
        /\ UNCHANGED old_workers
DClearPlots ==
    /\ ClearPlots
    /\ removed' = 1..Len(workers)
    /\ UNCHANGED <<tableVars, old_workers>>
DSelect ==
    /\ Len(workers) < MaxWorkers
    /\ \E key \in {"g/short", "g/long"} : on_signal_selected(key)

NextRemove ==
    \/ DSelect
    \/ GWorkerStep
    \/ GChunkReady
    \/ GDataStored
    \/ GProgress
    \/ DRemovePlot
    \/ DClearPlots

SpecRemove == Init /\ [][NextRemove]_vars

\* C36: after remove_plot(key) or clear_plots(), and as long as no later add_plot(key) is
\* issued (every worker of the key was started before the removal), key is in neither
\* current_plots nor the signal cache.
C36_RemovedStaysRemoved ==
    \A key \in FileKeys :
        (WorkersOf(key) # {} /\ WorkersOf(key) \subseteq removed)
            => /\ key \notin PlotKeys(current_plots)
               /\ key \notin CacheKeys(signal_cache)

(* ------------------------------------------------------ one load per key *)
\* worker w has not ended its run, or events of it are still waiting for their slots
InFlight(w) == workers[w].pc # "done" \/ handled[w] < Len(emitted[w])

\* C37: at most one PlotWorker is in flight per signal key; add_plot for a key whose load
\* has been started but whose first chunk has not been delivered yet starts no second worker.
C37_OneWorkerPerKey ==
    \A w1 \in 1..Len(workers), w2 \in 1..Len(workers) :
        (w1 < w2 /\ workers[w1].signal_key = workers[w2].signal_key)
            => ~(InFlight(w1) /\ InFlight(w2))

(* --------------------------------------------------- TableWidget (table_widget.py) *)
\* number of TableWorkers the widget may create in one behaviour
MaxTableWorkers == 2

\* what the widget section never touches
WidgetFrame ==
    UNCHANGED <<is_fully_loaded, staleDropped, plot_keys, column_count, tab_index, built_keys,
                scrollVars, cacheVars, plotVars, viewVars, procVars, fileVars>>

\* start_table_worker(worker_id), lines 122-153, on the workers `base`; data_pairs are the
\* cached (x, y) of the table cache's plot_keys; loading and shown are is_loading and the
\* progress bar's visibility at the call.  Without a data pair the bar is hidden and
\* is_loading reset.  Otherwise a TableWorker is created, made current_worker and its
\* signals connected, chunk_ready and finished through lambdas that bind worker_id; line
\* 153, worker.start(), then raises AttributeError (a QRunnable has no start method), which
\* changes nothing any more: the worker is handed to no thread pool.
StartTableWorker(base, worker_id, data_pairs, loading, shown) ==
    IF data_pairs = << >>
    THEN /\ progress_shown' = FALSE
         /\ is_loading' = FALSE
         /\ tworkers' = base
         /\ UNCHANGED <<current_table_worker, temitted, thandled>>
    ELSE /\ progress_shown' = shown
         /\ is_loading' = loading
         /\ tworkers' = Append(base, NewRun(worker_id, data_pairs))
         /\ current_table_worker' = Len(base) + 1
         /\ temitted' = Append(temitted, << >>)
         /\ thandled' = Append(thandled, 0)

\* TableWidget.update_data; max_rows is table_cache.max_rows
update_data(max_rows, data_pairs) ==
    /\ table_worker_id < MaxRebuilds
    /\ Len(tworkers) < MaxTableWorkers
    /\ table_worker_id' = table_worker_id + 1
    \* setup_table_structure: self.table.clear(); then setRowCount(table_cache.max_rows)
    /\ table' = {}
    /\ row_count' = max_rows
    /\ progress_value' = 0
    /\ StartTableWorker(IF current_table_worker # 0
                        THEN [tworkers EXCEPT ![current_table_worker].should_continue = FALSE]
                        ELSE tworkers,
                        table_worker_id + 1, data_pairs, TRUE, TRUE)
    /\ WidgetFrame

\* load_data_chunk, lines 250-255: a row of the chunk has no item in column 0
NeedsLoading(tb, start_row, end_row) ==
    \E row \in start_row..(end_row - 1) : \A c \in tb : c[1] # row

\* TableWidget.load_data_chunk(start_row) when it gets as far as start_table_worker;
\* table_cache.max_rows is the row count update_data gave the table
load_data_chunk(start_row, data_pairs) ==
    /\ ~is_loading
    /\ start_row < row_count
    /\ NeedsLoading(table, start_row, Min(start_row + CHUNK_ROWS, row_count))
    /\ Len(tworkers) < MaxTableWorkers
    /\ StartTableWorker(tworkers, table_worker_id, data_pairs, is_loading, progress_shown)
    /\ UNCHANGED <<table_worker_id, table, row_count, progress_value>>
    /\ WidgetFrame

\* TableWidget.cleanup: stop the current worker, clear_table
cleanup ==
    /\ tworkers' = IF current_table_worker # 0
                   THEN [tworkers EXCEPT ![current_table_worker].should_continue = FALSE]
                   ELSE tworkers
    /\ table' = {}
    /\ row_count' = 0
    /\ UNCHANGED <<table_worker_id, current_table_worker, temitted, thandled, widgetVars>>
    /\ WidgetFrame

RunQueued(t, sig) == thandled[t] < Len(temitted[t]) /\ temitted[t][thandled[t] + 1].sig = sig
RunDispatch(t) == thandled' = [thandled EXCEPT ![t] = @ + 1]

\* TableWidget.on_chunk_ready, for the oldest queued event of worker t, with the worker_id
\* bound when t was connected
on_chunk_ready(t) ==
    /\ RunQueued(t, "chunk_ready")
    /\ RunDispatch(t)
    /\ LET start_row == temitted[t][thandled[t] + 1].start_row
           end_row == Min(Min(start_row + CHUNK_ROWS, MaxXLen(tworkers[t].chunks)), row_count)
       IN  table' = IF tworkers[t].worker_id # table_worker_id
                    THEN table
                    ELSE WriteRows(table, start_row, Max(0, end_row - start_row),
                                   tworkers[t].worker_id)
    /\ UNCHANGED <<table_worker_id, current_table_worker, tworkers, temitted, row_count,
                   widgetVars>>
    /\ WidgetFrame

\* TableWidget.on_progress
on_progress(t) ==
    /\ RunQueued(t, "progress")
    /\ RunDispatch(t)
    /\ progress_value' = temitted[t][thandled[t] + 1].pct
    /\ UNCHANGED <<table_worker_id, current_table_worker, tworkers, temitted, table,
                   row_count, is_loading, progress_shown>>
    /\ WidgetFrame

\* TableWidget.on_worker_finished(worker_id)
on_worker_finished(t) ==
    /\ RunQueued(t, "finished")
    /\ RunDispatch(t)
    /\ IF tworkers[t].worker_id = table_worker_id
       THEN /\ progress_shown' = FALSE
            /\ is_loading' = FALSE
            /\ current_table_worker' = 0
       ELSE UNCHANGED <<progress_shown, is_loading, current_table_worker>>
    /\ UNCHANGED <<table_worker_id, tworkers, temitted, table, row_count, progress_value>>
    /\ WidgetFrame

\* TableWidget.on_worker_error
on_worker_error(t) ==
    /\ RunQueued(t, "error")
    /\ RunDispatch(t)
    /\ progress_shown' = FALSE
    /\ is_loading' = FALSE
    /\ UNCHANGED <<table_worker_id, current_table_worker, tworkers, temitted, table,
                   row_count, progress_value>>
    /\ WidgetFrame

\* the table cache and the signal cache as the widget finds them: no plotted key with cached
\* data, or one signal of MaxRows samples, its y as long as its x or one sample short
WidgetPairs ==
    {<< >>, <<SignalPair(1, MaxRows, MaxRows)>>, <<SignalPair(1, MaxRows, MaxRows - 1)>>}

WUpdateData == \E max_rows \in {0, MaxRows}, data_pairs \in WidgetPairs :
    update_data(max_rows, data_pairs)
WLoadDataChunk == \E start_row \in {0, CHUNK_ROWS}, data_pairs \in WidgetPairs :
    load_data_chunk(start_row, data_pairs)
WCleanup == cleanup
WChunkReady == \E t \in 1..Len(tworkers) : on_chunk_ready(t)
WProgress == \E t \in 1..Len(tworkers) : on_progress(t)
WFinished == \E t \in 1..Len(tworkers) : on_worker_finished(t)
WError == \E t \in 1..Len(tworkers) : on_worker_error(t)

\* the widget under every sequence of its operations; run() of the workers it created is
\* executed by whoever holds them, their events are delivered in order
NextWidget ==
    \/ WUpdateData
    \/ WLoadDataChunk
    \/ WCleanup
    \/ RRunStart
    \/ RRunLoopCheck
    \/ RRunProcessChunk
    \/ RRunProgress
    \/ RRunFinish
    \/ WChunkReady
    \/ WProgress
    \/ WFinished
    \/ WError

SpecWidget == Init /\ [][NextWidget]_vars

\* worker t can still write: its run has not ended or events of it are waiting
TableInFlight(t) == tworkers[t].pc # "done" \/ thandled[t] < Len(temitted[t])
\* worker t is un-cancelled and on_chunk_ready lets its chunks into the table
Writer(t) ==
    /\ tworkers[t].should_continue
    /\ tworkers[t].worker_id = table_worker_id
    /\ TableInFlight(t)

SlotStep(t) ==
    /\ Len(thandled') = Len(thandled)
    /\ thandled'[t] = thandled[t] + 1
\* worker t was started for a rebuild that a later update_data superseded
SupersededRebuild(t) == tworkers[t].worker_id # table_worker_id

SpecWidgetFair ==
    /\ SpecWidget
    /\ WF_vars(RRunStart) /\ WF_vars(RRunLoopCheck) /\ WF_vars(RRunProcessChunk)
    /\ WF_vars(RRunProgress) /\ WF_vars(RRunFinish)
    /\ WF_vars(WChunkReady) /\ WF_vars(WProgress) /\ WF_vars(WFinished) /\ WF_vars(WError)

\* C40: whenever is_loading is True (update_data set it), it is eventually False again,
\* whether the worker finishes, fails or is cancelled by stop().
C40_LoadingEventuallyEnds == is_loading ~> ~is_loading

====
